---- MODULE Spec2Model ----
(***************************************************************************)
(* PrismCast fMP4 segmenter (fmp4Segmenter.ts): one stream's chain of      *)
(* segmenter pipelines, the segment store they publish to, and the         *)
(* supervised handoff between them.                                        *)
(*                                                                         *)
(* Units: `elapsed` is Date.now() - state.segmentStartTime in whole         *)
(* seconds (the only way the code reads either); segment durations, which  *)
(* the code keeps as floating-point seconds, are kept in microseconds,     *)
(* truncated; the playlist prints them in thousandths of a second, as      *)
(* toFixed(3) does.  Map<K, V> objects are functions                       *)
(* whose DOMAIN is the set of keys present.                                *)
(***************************************************************************)
EXTENDS Integers, Sequences, FiniteSets, TLC

VARIABLES
  state,      \* SegmenterState of the live pipeline
  options,    \* FMP4SegmenterOptions the live pipeline was created with
  store,      \* the stream's segment store (init, segments, playlist)
  cb,         \* how often onStop / onError were invoked on the live pipeline
  elapsed,    \* Date.now() - state.segmentStartTime, in seconds
  config,     \* CONFIG.hls: segmentDuration (seconds) and maxSegments
  obs,        \* observations of the run (history), read by the properties only
  yttv,       \* youtubeTv.ts: the watch URL cache, the empty-discovery counter, the strategy runs
  click,      \* sling.ts: one clickWithRetry call and the page it clicks on
  sling,      \* sling.ts: one binary search of slingGridStrategy
  providers   \* providers.ts: providerGroups, channelsRef, providerSelections

vars == <<state, options, store, cb, elapsed, config, obs, yttv, click, sling, providers>>

----------------------------------------------------------------------------
(* Bounds of the model. *)

MaxBoxes == 3            \* boxes delivered to the stream in total
MaxSuccessorBoxes == 4   \* boxes delivered to a successor pipeline watched alone
MaxHandoffs == 1         \* supervised handoffs of the stream
MaxMediaBoxes == 3       \* moofs delivered to a pipeline watched from its init segment on
MaxCutBoxes == 3         \* boxes delivered to a pipeline watched for its segment cuts
MaxOptionBoxes == 3      \* boxes delivered to a pipeline created with any options

(* Configuration. *)

\* The configuration the streams run under, unless a scenario names its own.
DefaultConfig == [segmentDuration |-> 1, maxSegments |-> 2]

SegmentDuration == config.segmentDuration   \* CONFIG.hls.segmentDuration, seconds
MaxSegments == config.maxSegments           \* CONFIG.hls.maxSegments, the playlist window

\* The clock is followed until a segment reaches its target duration.
MaxElapsed == SegmentDuration

(* Program constants. *)

DURATION_SANITY_RATIO == 20
KEYFRAME_DEBUG == FALSE   \* keyframe diagnostics are compiled out
MIN_DURATION_MS == 100    \* Math.max(0.1, ...) seconds

NoBuffer == <<>>          \* a null Buffer / string (no real one is empty)
Omitted == 0 - 1          \* an omitted numeric option (undefined)

Tracks == {1, 2}          \* track_IDs: 1 video, 2 audio

----------------------------------------------------------------------------
(* Map helpers. *)

EmptyMap == <<>>

Has(m, k) == k \in DOMAIN m

Get(m, k, dflt) == IF k \in DOMAIN m THEN m[k] ELSE dflt

Put(m, k, v) == [x \in (DOMAIN m) \cup {k} |-> IF x = k THEN v ELSE m[x]]

Max(a, b) == IF a >= b THEN a ELSE b

SetMax(S) == CHOOSE x \in S : \A y \in S : y <= x

----------------------------------------------------------------------------
(* Input alphabet: the top-level boxes the parser delivers. *)

FtypBox == [type |-> "ftyp"]

\* Two moov variants with different per-track timescales (mdhd).
MoovA == [type |-> "moov", timescales |-> (1 :> 2 @@ 2 :> 4)]
MoovB == [type |-> "moov", timescales |-> (1 :> 3 @@ 2 :> 6)]
MoovBoxes == {MoovA, MoovB}

\* A moov in which no track is found: parseMoovTimescales returns no entry.
MoovNoTracks == [type |-> "moov", timescales |-> EmptyMap]

\* A moof as the source delivers it: per traf the track's total trun
\* duration; ok = FALSE is a moof the rewriter cannot parse.
NormalMoof == [ok |-> TRUE, dur |-> (1 :> 2 @@ 2 :> 3)]

MoofKinds ==
  { NormalMoof,
    [ok |-> TRUE,  dur |-> (1 :> 0)],               \* zero duration, video traf only
    [ok |-> TRUE,  dur |-> (1 :> 40 @@ 2 :> 3)],    \* 20 * 2
    [ok |-> TRUE,  dur |-> (1 :> 41 @@ 2 :> 3)],    \* 20 * 2 + 1
    [ok |-> TRUE,  dur |-> (1 :> 1  @@ 2 :> 3)],    \* below 40 / 20
    [ok |-> FALSE, dur |-> (1 :> 2  @@ 2 :> 3)] }   \* malformed

MoofBox(k) == [type |-> "moof", ok |-> k.ok, dur |-> k.dur]
MdatBox == [type |-> "mdat"]
StypBox == [type |-> "styp"]

----------------------------------------------------------------------------
(* mp4Parser.ts (its source is not in the repository files; modelled from the *)
(* specification, sections 4.2 and 4.3).                                    *)

\* parseMoovTimescales: track_ID -> timescale.
ParseMoovTimescales(data) == data.timescales

\* rewriteMoofTimestamps, the tfdt values written: each traf's
\* baseMediaDecodeTime becomes the track's counter (0 for a track not seen).
RewriteTfdt(dur, counters) == [t \in DOMAIN dur |-> Get(counters, t, 0)]

\* rewriteMoofTimestamps, the counters afterwards: each traf's track is
\* advanced by the traf's total sample duration.
RewriteAdvance(dur, counters) ==
  [t \in (DOMAIN counters) \cup (DOMAIN dur) |->
     IF t \in DOMAIN dur THEN Get(counters, t, 0) + dur[t] ELSE counters[t]]

----------------------------------------------------------------------------
(* hlsSegments.ts (its source is not in the repository files; modelled from the *)
(* specification, section 4.5): the per-stream store.                       *)

EmptyStore == [init |-> NoBuffer, segments |-> EmptyMap, playlist |-> NoBuffer]

StoreInitSegment(st, data) == [st EXCEPT !.init = data]

\* Bounded map name -> bytes, evicted in FIFO order by segment index.
StoreSegment(st, index, data) ==
  LET all == Put(st.segments, index, data)
      keep == {i \in DOMAIN all : i > index - MaxSegments}
  IN [st EXCEPT !.segments = [i \in keep |-> all[i]]]

UpdatePlaylist(st, text) == [st EXCEPT !.playlist = text]

----------------------------------------------------------------------------
(* createFMP4Segmenter: the initial SegmenterState. *)

\* v ?? dflt
OrElse(v, dflt) == IF v = Omitted THEN dflt ELSE v

\* trackTimestamps: a copy of initialTrackTimestamps, or an empty Map (an
\* omitted initialTrackTimestamps is the empty Map here).
SeedTrackTimestampsFresh(initial) == EmptyMap

SeedTrackTimestamps(initial) == initial

CreateFMP4Segmenter(opt) ==
  [ discontinuityIndices   |-> {},
    firstSegmentEmitted    |-> FALSE,
    fragmentBuffer         |-> <<>>,
    hasInit                |-> FALSE,
    indeterminateCount     |-> 0,
    initBoxes              |-> <<>>,
    initSegment            |-> NoBuffer,
    initVersion            |-> OrElse(opt.startingInitVersion, 0),
    lastSegmentSize        |-> 0,
    pendingDiscontinuity   |-> opt.pendingDiscontinuity,   \* ?? false
    segmentDurations       |-> EmptyMap,
    segmentIndex           |-> OrElse(opt.startingSegmentIndex, 0),
    segmentStartTime       |-> 0,      \* Date.now(): elapsed = 0
    segmentTrackDurations  |-> EmptyMap,
    stopped                |-> FALSE,
    trackExpectedDurations |-> EmptyMap,
    trackTimescales        |-> EmptyMap,
    trackTimestamps        |-> SeedTrackTimestamps(opt.initialTrackTimestamps),
    listening              |-> TRUE ]   \* pipe(): data/end/error listeners attached

\* Every option omitted (pendingDiscontinuity: omitted and false are the same).
DefaultOptions ==
  [ initialTrackTimestamps |-> EmptyMap,
    pendingDiscontinuity   |-> FALSE,
    previousInitSegment    |-> NoBuffer,
    startingInitVersion    |-> Omitted,
    startingSegmentIndex   |-> Omitted ]

\* What the properties remember of the run.
NoPublisher == 0 - 1

FreshObs(g, prevEmitted, staleFlush) ==
  [ gen          |-> g,            \* number of handoffs so far
    emitted      |-> <<>>,         \* storeSegment calls of the live pipeline, in order
    prevEmitted  |-> prevEmitted,  \* indices stored by the earlier pipelines
    staleFlush   |-> staleFlush,   \* indices stored by an outgoing pipeline after its snapshot
    publisher    |-> NoPublisher,       \* gen of the pipeline that published store.playlist
    awaitingMark |-> FALSE,        \* markDiscontinuity() returned and no segment was emitted since
    marked       |-> FALSE,        \* markDiscontinuity() was called on the live pipeline
    ignored      |-> FALSE,        \* a call or an event reached the live pipeline after it stopped
    versionOf    |-> EmptyMap,     \* per index stored: the initVersion at its emission
    boxesLeft    |-> 0,            \* boxes the stream may still deliver
    ingest       |-> "start",      \* where the live pipeline's input stands in the ingest contract
    clamped      |-> {},           \* tracks whose sanity clamp fired on the live pipeline
    failed       |-> FALSE,        \* a rewrite failed on the live pipeline
    sumDur       |-> EmptyMap,     \* per track: sum of the trun durations rewritten
    lastTfdt     |-> EmptyMap,     \* per track: the last baseMediaDecodeTime written
    lastDur      |-> EmptyMap,     \* per track: the trun duration of that moof
    sinceMoof    |-> 0,            \* scenario streams: seconds since the last moof arrived
    onTime       |-> TRUE,         \* scenario streams: every moof came one second after the one before
    last         |-> <<>> ]        \* <<the moof step just taken>>, if the last step was one

----------------------------------------------------------------------------
(* generatePlaylist *)

Line(tag, val) == [tag |-> tag, val |-> val]

\* Math.ceil of a duration, in seconds.
CeilSeconds(us) == (us + 999999) \div 1000000

\* duration.toFixed(3): the nearest thousandth of a second.
ToFixed3(us) == (us + 500) \div 1000

StartIndexZero(s) == 0

StartIndexWide(s) == Max(0, s.segmentIndex - MaxSegments - 1)

StartIndex(s) == Max(0, s.segmentIndex - MaxSegments)

Window(s) == StartIndex(s) .. (s.segmentIndex - 1)

DurationOf(s, i) == Get(s.segmentDurations, i, SegmentDuration * 1000000)

MaxDurationConfigured(s) == SegmentDuration * 1000000

MaxDuration(s) ==
  SetMax({SegmentDuration * 1000000} \cup {DurationOf(s, i) : i \in Window(s)})

SegmentLines(s, i) ==
  (IF i \in s.discontinuityIndices
     THEN <<Line("#EXT-X-DISCONTINUITY", 0), Line("#EXT-X-MAP", s.initVersion)>>
     ELSE <<>>)
  \o <<Line("#EXTINF", ToFixed3(DurationOf(s, i))), Line("segment", i)>>

RECURSIVE WindowLines(_, _)
WindowLines(s, i) ==
  IF i >= s.segmentIndex THEN <<>> ELSE SegmentLines(s, i) \o WindowLines(s, i + 1)

GeneratePlaylist(s) ==
  << Line("#EXTM3U", 0),
     Line("#EXT-X-VERSION", 7),
     Line("#EXT-X-TARGETDURATION", CeilSeconds(MaxDuration(s))),
     Line("#EXT-X-MEDIA-SEQUENCE", StartIndex(s)),
     Line("#EXT-X-MAP", s.initVersion) >>
  \o WindowLines(s, StartIndex(s))

----------------------------------------------------------------------------
(* outputSegment *)

ResetSegmentTrackingKeeping(s) == [s EXCEPT !.fragmentBuffer = <<>>]

\* segmentStartTime = Date.now() restarts `elapsed` (see OutputSegment).
ResetSegmentTracking(s) ==
  [s EXCEPT !.fragmentBuffer = <<>>,
            !.segmentTrackDurations = EmptyMap]

\* Number(accumulated) / timescale, in microseconds.
TrackSeconds(s, trackId) ==
  LET timescale == Get(s.trackTimescales, trackId, 0)
      accumulated == s.segmentTrackDurations[trackId]
  IN IF timescale # 0 /\ accumulated > 0
       THEN (accumulated * 1000000) \div timescale
       ELSE 0

MediaDuration(s) ==
  SetMax({0} \cup {TrackSeconds(s, t) : t \in DOMAIN s.segmentTrackDurations})

ActualDuration(s, t) ==
  Max(MIN_DURATION_MS * 1000,
      IF MediaDuration(s) > 0 THEN MediaDuration(s)
                              ELSE t * 1000000)

NextSegmentIndexStuck(i) == i

NextSegmentIndex(i) == i + 1

PruneDurationsNone(m, threshold) == m

PruneDurations(m, threshold) == [i \in {j \in DOMAIN m : j >= threshold} |-> m[i]]

\* w = [state, options, store, elapsed, obs].
OutputSegment(w) ==
  LET t == w.elapsed IN
  LET s == w.state IN
  IF Len(s.fragmentBuffer) = 0 THEN w
  ELSE
    LET index == s.segmentIndex
        s1 == IF s.pendingDiscontinuity
                THEN [s EXCEPT !.discontinuityIndices = @ \cup {index},
                               !.pendingDiscontinuity = FALSE]
                ELSE s
        s2 == [s1 EXCEPT !.segmentDurations = Put(@, index, ActualDuration(s1, t))]
        st1 == StoreSegment(w.store, index, s2.fragmentBuffer)
        s3 == [s2 EXCEPT !.lastSegmentSize = Len(s2.fragmentBuffer),
                         !.segmentIndex = NextSegmentIndex(@),
                         !.firstSegmentEmitted = TRUE]
        s4 == [s3 EXCEPT !.segmentDurations =
                 PruneDurations(@, Max(0, s3.segmentIndex - MaxSegments))]
        s5 == ResetSegmentTracking(s4)
    IN [ state   |-> s5,
         options |-> w.options,
         store   |-> UpdatePlaylist(st1, GeneratePlaylist(s5)),
         elapsed |-> 0,
         obs     |-> [w.obs EXCEPT
                        !.emitted = Append(@, [ index    |-> index,
                                                hadInit  |-> s.hasInit,
                                                called   |-> w.obs.awaitingMark,
                                                duration |-> ActualDuration(s1, t) ]),
                        !.versionOf = Put(@, index, s.initVersion),
                        !.publisher = w.obs.gen,
                        !.awaitingMark = FALSE] ]

----------------------------------------------------------------------------
(* handleBox *)

Push(s, data) == [s EXCEPT !.fragmentBuffer = Append(@, data)]

\* initChanged: no previous init was supplied, or the bytes differ.
InitChangedAlways(previousInitSegment, initData) == TRUE

InitChanged(previousInitSegment, initData) ==
  (previousInitSegment = NoBuffer) \/ (initData # previousInitSegment)

\* The ftyp / moov branch while the init segment is incomplete.
HandleInitBox(w, box) ==
  LET s == w.state
      s1 == [s EXCEPT !.initBoxes = Append(@, box)]
  IN IF box.type # "moov" THEN [w EXCEPT !.state = s1]
     ELSE
       LET initData == s1.initBoxes
           initChanged == InitChanged(w.options.previousInitSegment, initData)
           s2 == [s1 EXCEPT !.hasInit = TRUE,
                            !.initSegment = initData,
                            !.initVersion = IF initChanged THEN @ + 1 ELSE @,
                            !.trackTimescales = ParseMoovTimescales(box),
                            !.pendingDiscontinuity =
                               IF ~initChanged /\ @ THEN FALSE ELSE @]
       IN [w EXCEPT !.state = s2, !.store = StoreInitSegment(w.store, initData)]

CutBeforeMoofUntimed(w) ==
  IF Len(w.state.fragmentBuffer) > 0 THEN OutputSegment(w) ELSE w

\* The segment cut decided at the arrival of a moof, before it is appended.
CutBeforeMoof(w) ==
  LET s == w.state IN
  IF Len(s.fragmentBuffer) > 0
    THEN IF ~s.firstSegmentEmitted
           THEN OutputSegment(w)
           ELSE IF w.elapsed * 1000 >= SegmentDuration * 1000
                  THEN OutputSegment(w)
                  ELSE w
    ELSE w

\* The duration sanity check against the anchored baseline.
ClampFires(expected, duration) ==
  /\ expected # 0
  /\ expected > 0
  /\ \/ duration > expected * DURATION_SANITY_RATIO
     \/ duration < expected \div DURATION_SANITY_RATIO

\* trackTimestamps.set(trackId, current - duration + expected)
ClampedCounterNoBaseline(current, duration, expected) == current - duration

ClampedCounterSwapped(current, duration, expected) == current - expected + duration

ClampedCounter(current, duration, expected) == current - duration + expected

\* Tracks of a moof whose reported duration is nonzero (zero: `continue`).
NonZero(dur) == {t \in DOMAIN dur : dur[t] # 0}

ClampedTracks(s, dur) ==
  {t \in NonZero(dur) : ClampFires(Get(s.trackExpectedDurations, t, 0), dur[t])}

EffectiveDuration(s, dur, t) ==
  IF t \in ClampedTracks(s, dur) THEN s.trackExpectedDurations[t] ELSE dur[t]

\* Tracks whose baseline this moof anchors: a nonzero duration that passed
\* the sanity check, for a track that has no baseline yet.
AnchoredTracksAgain(s, dur) == NonZero(dur) \ ClampedTracks(s, dur)

AnchoredTracks(s, dur) ==
  {t \in NonZero(dur) \ ClampedTracks(s, dur) : ~Has(s.trackExpectedDurations, t)}

RewriteAndAccountAdvancing(s, box) ==
  [s EXCEPT !.trackTimestamps = RewriteAdvance(box.dur, @)]

\* The try block: rewrite, then the per-track loop over trafDurations.  A
\* moof the rewriter rejects leaves every field as it was (catch).
RewriteAndAccount(s, box) ==
  IF ~box.ok THEN s
  ELSE
    LET dur == box.dur
        advanced == RewriteAdvance(dur, s.trackTimestamps)
        clampedT == ClampedTracks(s, dur)
        anchorT == AnchoredTracks(s, dur)
    IN [s EXCEPT
          !.trackTimestamps =
             [t \in DOMAIN advanced |->
                IF t \in clampedT
                  THEN ClampedCounter(advanced[t], dur[t], s.trackExpectedDurations[t])
                  ELSE advanced[t]],
          !.trackExpectedDurations =
             [t \in (DOMAIN @) \cup anchorT |-> IF t \in anchorT THEN dur[t] ELSE @[t]],
          !.segmentTrackDurations =
             [t \in (DOMAIN @) \cup NonZero(dur) |->
                IF t \in NonZero(dur)
                  THEN Get(@, t, 0) + EffectiveDuration(s, dur, t)
                  ELSE @[t]]]

\* The moof as appended: rewritten in place when the rewrite succeeded, with
\* the source's own timestamps (no rewritten tfdt) when it failed; its trun
\* sample durations are never touched.
Rewritten(s, box) ==
  [type |-> "moof",
   tfdt |-> IF box.ok THEN RewriteTfdt(box.dur, s.trackTimestamps) ELSE EmptyMap,
   dur  |-> box.dur]

ObserveMoof(o, s0, s1, box, cut) ==
  [o EXCEPT
     !.failed = @ \/ ~box.ok,
     !.clamped = IF box.ok THEN @ \cup ClampedTracks(s0, box.dur) ELSE @,
     !.sumDur = IF box.ok
                  THEN [t \in (DOMAIN @) \cup (DOMAIN box.dur) |->
                          Get(@, t, 0) + Get(box.dur, t, 0)]
                  ELSE @,
     !.lastTfdt = IF box.ok
                    THEN [t \in (DOMAIN @) \cup (DOMAIN box.dur) |->
                            IF t \in DOMAIN box.dur
                              THEN Rewritten(s0, box).tfdt[t] ELSE @[t]]
                    ELSE @,
     !.lastDur = IF box.ok
                   THEN [t \in (DOMAIN @) \cup (DOMAIN box.dur) |->
                           IF t \in DOMAIN box.dur THEN box.dur[t] ELSE @[t]]
                   ELSE @,
     !.last = << [ ok   |-> box.ok,
                dur  |-> box.dur,
                cut  |-> cut,
                base |-> s0.trackExpectedDurations,
                ts0  |-> s0.trackTimestamps,
                acc0 |-> s0.segmentTrackDurations ] >>]

\* The KEYFRAME_DEBUG block: detectMoofKeyframe (mp4Parser.ts) throws on a
\* moof it cannot parse, which is counted as indeterminate.
KeyframeDebug(s, box) ==
  IF KEYFRAME_DEBUG /\ ~box.ok
    THEN [s EXCEPT !.indeterminateCount = @ + 1]
    ELSE s

HandleMoofBox(w, box) ==
  LET w1 == CutBeforeMoof(w)
      s0 == w1.state
      s1 == KeyframeDebug(RewriteAndAccount(s0, box), box)
  IN [w1 EXCEPT
        !.state = Push(s1, Rewritten(s0, box)),
        !.obs = ObserveMoof(w1.obs, s0, s1, box, w1.state.segmentIndex # w.state.segmentIndex)]

HandleBox(w, box) ==
  LET s == w.state IN
  IF s.stopped THEN w
  ELSE IF ~s.hasInit /\ box.type \in {"ftyp", "moov"} THEN HandleInitBox(w, box)
  ELSE IF box.type = "moof" THEN HandleMoofBox(w, box)
  ELSE IF box.type = "mdat" THEN [w EXCEPT !.state = Push(s, box)]
  ELSE IF s.hasInit THEN [w EXCEPT !.state = Push(s, box)]
  ELSE w

----------------------------------------------------------------------------
(* The stream handlers and the public interface. *)

\* handleEnd: w and cb afterwards.
HandleEndOpDiscarding(w) ==
  IF w.state.stopped THEN w ELSE [w EXCEPT !.state.stopped = TRUE]

HandleEndOp(w) ==
  IF w.state.stopped THEN w
  ELSE LET w1 == IF Len(w.state.fragmentBuffer) > 0 THEN OutputSegment(w) ELSE w
       IN [w1 EXCEPT !.state.stopped = TRUE]

MarkDiscontinuityOpUnguarded(w) ==
  LET w1 == OutputSegment(w)
  IN [w1 EXCEPT !.state.pendingDiscontinuity = TRUE,
                !.obs.awaitingMark = TRUE,
                !.obs.marked = TRUE]

\* markDiscontinuity
MarkDiscontinuityOp(w) ==
  IF w.state.stopped THEN w
  ELSE LET w1 == OutputSegment(w)
       IN [w1 EXCEPT !.state.pendingDiscontinuity = TRUE,
                     !.obs.awaitingMark = TRUE,
                     !.obs.marked = TRUE]

StopOpFlushing(w) ==
  IF w.state.stopped THEN w
  ELSE [HandleEndOp(w) EXCEPT !.state.listening = FALSE]

\* stop
StopOp(w) ==
  IF w.state.stopped THEN w
  ELSE [w EXCEPT !.state.stopped = TRUE, !.state.listening = FALSE]

\* The snapshot getters.
GetInitSegment(s) == s.initSegment

GetInitVersion(s) == s.initVersion

GetSegmentIndexZero(s) == 0

GetSegmentIndex(s) == s.segmentIndex

GetTrackTimestamps(s) == s.trackTimestamps

\* getKeyframeStats: the counter of moofs recorded as indeterminate.
GetKeyframeStats(s) == [indeterminateCount |-> s.indeterminateCount]

----------------------------------------------------------------------------
(* Actions. *)

Indices(log) == {log[i].index : i \in DOMAIN log}

\* The world a handler starts from; a step that is no moof forgets obs.last.
World ==
  [ state   |-> state,
    options |-> options,
    store   |-> store,
    elapsed |-> elapsed,
    obs     |-> [obs EXCEPT !.last = <<>>] ]

\* Remembers that the handler ran on a pipeline already stopped.
Noting(w) == IF state.stopped THEN [w EXCEPT !.obs.ignored = TRUE] ELSE w

Becomes(w) ==
  /\ state' = Noting(w).state
  /\ store' = Noting(w).store
  /\ elapsed' = Noting(w).elapsed
  /\ obs' = Noting(w).obs

\* The ingest contract (specification, section 6): one ftyp, one moov, then
\* moof + mdat fragments, with styp / sidx boxes anywhere after the init.
\* "bad" once the input has left the contract.
IngestAfter(phase, type) ==
  CASE phase = "start" /\ type = "ftyp" -> "ftyp"
    [] phase = "ftyp" /\ type = "moov" -> "ready"
    [] phase = "ready" /\ type = "moof" -> "moof"
    [] phase = "ready" /\ type = "styp" -> "ready"
    [] phase = "moof" /\ type = "mdat" -> "ready"
    [] phase = "moof" /\ type = "styp" -> "moof"
    [] OTHER -> "bad"

\* A box arrives: handleData -> parser.push -> handleBox.  (handleData
\* returns at once when stopped: the box is not counted then.)
Deliver(box) ==
  /\ obs.boxesLeft > 0
  /\ Becomes(IF state.stopped THEN World
                ELSE [HandleBox(World, box) EXCEPT
                        !.obs.boxesLeft = @ - 1,
                        !.obs.ingest = IngestAfter(@, box.type)])

\* stream 'data' carrying a complete ftyp box
DataFtyp ==
  /\ Deliver(FtypBox)
  /\ UNCHANGED <<options, cb, config, yttv, click, sling, providers>>

\* stream 'data' carrying a complete moov box
DataMoov ==
  /\ \E box \in MoovBoxes : Deliver(box)
  /\ UNCHANGED <<options, cb, config, yttv, click, sling, providers>>

\* stream 'data' carrying a complete, regular moof box
DataMoof ==
  /\ Deliver(MoofBox(NormalMoof))
  /\ UNCHANGED <<options, cb, config, yttv, click, sling, providers>>

\* stream 'data' carrying a complete moof box of any kind
DataMoofKinds ==
  /\ \E k \in MoofKinds : Deliver(MoofBox(k))
  /\ UNCHANGED <<options, cb, config, yttv, click, sling, providers>>

\* stream 'data' carrying a complete mdat box
DataMdat ==
  /\ Deliver(MdatBox)
  /\ UNCHANGED <<options, cb, config, yttv, click, sling, providers>>

\* stream 'data' carrying a complete box of another type
DataStyp ==
  /\ Deliver(StypBox)
  /\ UNCHANGED <<options, cb, config, yttv, click, sling, providers>>

\* stream 'end'
HandleEnd ==
  /\ Becomes(HandleEndOp(World))
  /\ cb' = IF state.stopped THEN cb ELSE [cb EXCEPT !.onStop = @ + 1]
  /\ UNCHANGED <<options, config, yttv, click, sling, providers>>

\* stream 'data' carrying bytes the box parser rejects: parser.push throws
\* (specification, section 4.2) and handleData's catch reports the error.
DataMalformed ==
  /\ obs.boxesLeft > 0
  /\ Becomes(IF state.stopped THEN World
                ELSE [World EXCEPT !.obs.boxesLeft = @ - 1, !.obs.ingest = "bad"])
  /\ cb' = IF state.stopped THEN cb ELSE [cb EXCEPT !.onError = @ + 1]
  /\ UNCHANGED <<options, config, yttv, click, sling, providers>>

\* stream 'error'
HandleError ==
  /\ Becomes(IF state.stopped THEN World ELSE [World EXCEPT !.state.stopped = TRUE])
  /\ cb' = IF state.stopped THEN cb ELSE [cb EXCEPT !.onError = @ + 1]
  /\ UNCHANGED <<options, config, yttv, click, sling, providers>>

MarkDiscontinuity ==
  /\ Becomes(MarkDiscontinuityOp(World))
  /\ UNCHANGED <<options, cb, config, yttv, click, sling, providers>>

Stop ==
  /\ Becomes(StopOp(World))
  /\ UNCHANGED <<options, cb, config, yttv, click, sling, providers>>

\* Time passes.
Tick ==
  /\ ~state.stopped
  /\ elapsed < MaxElapsed
  /\ elapsed' = elapsed + 1
  /\ obs' = [obs EXCEPT !.last = <<>>]
  /\ UNCHANGED <<state, options, store, cb, config, yttv, click, sling, providers>>

\* Supervised handoff (specification, section 4.7): snapshot the outgoing
\* pipeline, markDiscontinuity() on it, stop it, create the successor seeded
\* with the snapshot and pendingDiscontinuity = true, pipe the new capture.
HandoffWorld(w) ==
  LET snapshot == [ initSegment     |-> GetInitSegment(w.state),
                    initVersion     |-> GetInitVersion(w.state),
                    segmentIndex    |-> GetSegmentIndex(w.state),
                    trackTimestamps |-> GetTrackTimestamps(w.state) ]
      before == Indices(w.obs.emitted)
      w1 == MarkDiscontinuityOp(w)
      w2 == StopOp(w1)
      opt == [ initialTrackTimestamps |-> snapshot.trackTimestamps,
               pendingDiscontinuity   |-> TRUE,
               previousInitSegment    |-> snapshot.initSegment,
               startingInitVersion    |-> snapshot.initVersion,
               startingSegmentIndex   |-> snapshot.segmentIndex ]
      fresh == FreshObs(w.obs.gen + 1,
                        w.obs.prevEmitted \cup before,
                        w.obs.staleFlush \cup (Indices(w2.obs.emitted) \ before))
  IN [ state   |-> CreateFMP4Segmenter(opt),
       options |-> opt,
       store   |-> w2.store,
       elapsed |-> 0,
       obs     |-> [fresh EXCEPT !.boxesLeft = w.obs.boxesLeft,
                                 !.versionOf = w2.obs.versionOf,
                                 !.publisher = w2.obs.publisher] ]

Handoff ==
  /\ obs.gen < MaxHandoffs
  /\ Becomes(HandoffWorld(World))
  /\ options' = HandoffWorld(World).options
  /\ cb' = [onStop |-> 0, onError |-> 0]
  /\ UNCHANGED <<config, yttv, click, sling, providers>>

\* The first pipeline of a stream, before any byte arrived.
InitialWorld ==
  [ state   |-> CreateFMP4Segmenter(DefaultOptions),
    options |-> DefaultOptions,
    store   |-> EmptyStore,
    elapsed |-> 0,
    obs     |-> [FreshObs(0, {}, {}) EXCEPT !.boxesLeft = MaxBoxes] ]

\* youtubeTv.ts at module load: an empty cache, no empty discovery counted,
\* no strategy run in flight.
Runs == {1, 2}

NoUrl == <<>>

YttvLoaded ==
  [ cache                       |-> <<>>,
    consecutiveEmptyDiscoveries |-> 0,
    pc                          |-> [r \in Runs |-> "idle"],
    channelName                 |-> [r \in Runs |-> <<>>],
    guideKeys                   |-> {},        \* keys set from a guide name since the last clear
    invalidated                 |-> EmptyMap,  \* per selector: the URL invalidated and not rediscovered since
    last                        |-> <<>> ]     \* <<the step just taken>>

\* No clickWithRetry call in progress.
ClickIdle == [pc |-> "idle"]

\* No binary search in progress.
SlingIdle == [pc |-> "idle"]

\* providers.ts at module load.
ProvidersLoaded ==
  [ providerGroups     |-> EmptyMap,
    channelsRef        |-> EmptyMap,
    providerSelections |-> EmptyMap,
    last               |-> <<>> ]

\* The segmenter's part of the initial state.
SegmenterStarts(c, w) ==
  /\ config = c
  /\ elapsed = w.elapsed
  /\ options = w.options
  /\ state = w.state
  /\ store = w.store
  /\ cb = [onStop |-> 0, onError |-> 0]
  /\ obs = w.obs

StartsUnder(c, w) ==
  /\ yttv = YttvLoaded
  /\ click = ClickIdle
  /\ sling = SlingIdle
  /\ providers = ProvidersLoaded
  /\ config = c
  /\ elapsed = w.elapsed
  /\ options = w.options
  /\ state = w.state
  /\ store = w.store
  /\ cb = [onStop |-> 0, onError |-> 0]
  /\ obs = w.obs

Starts(w) == StartsUnder(DefaultConfig, w)

Init == Starts(InitialWorld)

Next ==
  \/ DataFtyp
  \/ DataMoov
  \/ DataMoof
  \/ DataMdat
  \/ DataStyp
  \/ HandleEnd
  \/ HandleError
  \/ MarkDiscontinuity
  \/ Stop
  \/ Tick
  \/ Handoff

\* The life of a stream: every box type, every handler, handoffs.
Spec == Init /\ [][Next]_vars

NextHandoff ==
  \/ DataFtyp
  \/ DataMoov
  \/ DataMoof
  \/ DataMdat
  \/ HandleEnd
  \/ MarkDiscontinuity
  \/ Tick
  \/ Handoff

NextLifecycle ==
  \/ DataFtyp
  \/ DataMoov
  \/ DataMoof
  \/ DataMdat
  \/ DataStyp
  \/ DataMalformed
  \/ HandleEnd
  \/ HandleError
  \/ MarkDiscontinuity
  \/ Stop
  \/ Tick

\* One pipeline from its creation to its stop: every box type, chunks the
\* parser rejects, every handler.
SpecLifecycle == Init /\ [][NextLifecycle]_vars

\* A chain of pipelines: the boxes of a regular capture, the end of a
\* capture, recovery events and handoffs.
SpecHandoff == Init /\ [][NextHandoff]_vars

\* A pipeline that holds its init segment (ftyp, moov).
WithInit(w) == HandleBox(HandleBox(w, FtypBox), MoovA)

InitTimestamps == Starts(WithInit(InitialWorld))

NextTimestamps ==
  \/ DataMoofKinds
  \/ Tick
  \/ Handoff

\* The timestamp counters: moofs of every kind, segment cuts, handoffs.
SpecTimestamps == InitTimestamps /\ [][NextTimestamps]_vars

\* The successor of a pipeline that held its init segment, right after the
\* handoff.
InitSuccessor ==
  Starts([HandoffWorld(WithInit(InitialWorld)) EXCEPT !.obs.boxesLeft = MaxSuccessorBoxes])

NextSuccessor ==
  \/ DataFtyp
  \/ DataMoov
  \/ DataMoof
  \/ DataMdat
  \/ DataStyp
  \/ HandleEnd
  \/ HandleError
  \/ MarkDiscontinuity
  \/ Stop
  \/ Tick

\* One successor pipeline from its creation on.
SpecSuccessor == InitSuccessor /\ [][NextSuccessor]_vars

\* A pipeline whose capture delivered one fragment and ended: handleEnd
\* emitted the fragment as a segment and stopped the pipeline.
Ended(w) == HandleEndOp(HandleBox(HandleBox(w, MoofBox(NormalMoof)), MdatBox))

\* The successor that replaces a capture which ended after its first
\* segment, right after the handoff.
InitReplaced ==
  Starts([HandoffWorld(Ended(WithInit(InitialWorld))) EXCEPT
            !.obs.boxesLeft = MaxSuccessorBoxes])

\* One successor pipeline while the outgoing pipeline's segment is still in
\* the playlist window.
SpecReplaced == InitReplaced /\ [][NextSuccessor]_vars

\* A pipeline that has just stored its init segment, whatever the moov.
InitMedia ==
  \E moov \in MoovBoxes \cup {MoovNoTracks} :
    Starts([HandleBox(HandleBox(InitialWorld, FtypBox), moov) EXCEPT
              !.obs.boxesLeft = MaxMediaBoxes,
              !.obs.ingest = "ready"])

NextMedia ==
  \/ DataMoofKinds
  \/ HandleEnd
  \/ Tick

\* The media of one pipeline: moofs of every kind under every kind of moov,
\* the clock and the end of the stream.
SpecMedia == InitMedia /\ [][NextMedia]_vars

\* A pipeline that has just stored its init segment: the first pipeline of
\* a stream, or the successor of one that emitted a segment.
InitCuts ==
  /\ config = DefaultConfig
  /\ \E w \in {InitialWorld, HandoffWorld(Ended(WithInit(InitialWorld)))} :
       Starts([WithInit(w) EXCEPT
                 !.obs.boxesLeft = MaxCutBoxes,
                 !.obs.ingest = "ready"])

NextCuts ==
  \/ DataMoof
  \/ DataMdat
  \/ DataStyp
  \/ MarkDiscontinuity
  \/ HandleEnd
  \/ Tick

\* The segment cuts of one pipeline: regular fragments, minor boxes,
\* recovery events, the clock and the end of the stream.
SpecCuts == InitCuts /\ [][NextCuts]_vars

\* The scenario 'fresh stream, steady state' (specification, section 9):
\* segmentDuration = 2, maxSegments = 4; ftyp, a moov with one video track of
\* timescale 90000, six moof + mdat pairs of 90000 units each.  Timescale
\* and durations are counted in thousands of units.
SteadyConfig == [segmentDuration |-> 2, maxSegments |-> 4]

MoovSteady == [type |-> "moov", timescales |-> (1 :> 90)]

SteadyFragment == <<MoofBox([ok |-> TRUE, dur |-> (1 :> 90)]), MdatBox>>

SteadyStream ==
  <<FtypBox, MoovSteady>>
  \o SteadyFragment \o SteadyFragment \o SteadyFragment
  \o SteadyFragment \o SteadyFragment \o SteadyFragment

InitSteady ==
  StartsUnder(SteadyConfig,
              [InitialWorld EXCEPT !.obs.boxesLeft = Len(SteadyStream)])

\* stream 'data' carrying the next box of the scenario's stream
SteadyData ==
  /\ obs.boxesLeft > 0
  /\ LET box == SteadyStream[Len(SteadyStream) - obs.boxesLeft + 1]
         first == \A p \in 1 .. (Len(SteadyStream) - obs.boxesLeft) :
                    SteadyStream[p].type # "moof"
     IN Becomes(IF state.stopped THEN World
                ELSE [HandleBox(World, box) EXCEPT
                        !.obs.boxesLeft = @ - 1,
                        !.obs.ingest = IngestAfter(@, box.type),
                        !.obs.onTime = IF box.type = "moof" /\ ~first
                                         THEN @ /\ obs.sinceMoof = 1
                                         ELSE IF box.type = "mdat"
                                                THEN @ /\ obs.sinceMoof = 0
                                                ELSE @,
                        !.obs.sinceMoof = IF box.type = "moof" THEN 0 ELSE @])
  /\ UNCHANGED <<options, cb, config, yttv, click, sling, providers>>

\* A second passes on the scenario's stream.
SteadyTick ==
  /\ ~state.stopped
  /\ elapsed < MaxElapsed
  /\ elapsed' = elapsed + 1
  /\ obs' = [obs EXCEPT !.last = <<>>,
                         !.sinceMoof = IF @ < MaxElapsed THEN @ + 1 ELSE @]
  /\ UNCHANGED <<state, options, store, cb, config, yttv, click, sling, providers>>

NextSteady ==
  \/ SteadyData
  \/ SteadyTick
  \/ HandleEnd

\* The scenario's stream delivered to a fresh pipeline, at any pace.
SpecSteady == InitSteady /\ [][NextSteady]_vars

\* The creation options a caller may combine: startingInitVersion omitted or
\* supplied, previousInitSegment absent or the init segment of either moov,
\* pendingDiscontinuity false or true.
CreationOptions ==
  { [DefaultOptions EXCEPT !.startingInitVersion = v,
                           !.previousInitSegment = prev,
                           !.pendingDiscontinuity = pd] :
      v \in {Omitted, 1},
      prev \in {NoBuffer} \cup {<<FtypBox, moov>> : moov \in MoovBoxes},
      pd \in BOOLEAN }

\* A pipeline just created with one of these options.
InitOptions ==
  \E opt \in CreationOptions :
    Starts([InitialWorld EXCEPT !.state = CreateFMP4Segmenter(opt),
                                !.options = opt,
                                !.obs.boxesLeft = MaxOptionBoxes])

NextOptions ==
  \/ DataFtyp
  \/ DataMoov
  \/ DataMoof
  \/ DataMdat
  \/ HandleEnd
  \/ Tick

\* One pipeline under every combination of creation options.
SpecOptions == InitOptions /\ [][NextOptions]_vars

----------------------------------------------------------------------------
(* Properties. *)

StartingSegmentIndex == OrElse(options.startingSegmentIndex, 0)

StartingInitVersion == OrElse(options.startingInitVersion, 0)

\* The playlist lists segment i right after a discontinuity tag and an init
\* reference of version v.
MarkedIn(playlist, i, v) ==
  \E p \in 1 .. (Len(playlist) - 3) :
    /\ playlist[p] = Line("#EXT-X-DISCONTINUITY", 0)
    /\ playlist[p + 1] = Line("#EXT-X-MAP", v)
    /\ playlist[p + 3] = Line("segment", i)

Marked(playlist, i) == \E v \in 0 .. (MaxHandoffs + 2) : MarkedIn(playlist, i, v)

Listed(playlist, i) == \E p \in DOMAIN playlist : playlist[p] = Line("segment", i)

\* C1: whatever the boxes and their order, a pipeline stores no segment and
\* publishes no playlist before it has stored its init segment.
C1_InitBeforeSegments ==
  /\ \A k \in DOMAIN obs.emitted : obs.emitted[k].hadInit
  /\ (DOMAIN store.segments # {} \/ store.playlist # NoBuffer) => store.init # NoBuffer

\* C2: the k-th segment a pipeline emits is stored under index
\* startingSegmentIndex + k - 1: the indices are contiguous and none is used
\* twice by the pipeline.
C2_ContiguousIndices ==
  \A k \in DOMAIN obs.emitted : obs.emitted[k].index = StartingSegmentIndex + k - 1

C2_Witness ==
  /\ obs.gen = 1
  /\ StartingSegmentIndex > 0
  /\ Len(obs.emitted) >= 2

C4_TimestampsNeverDecrease ==
  /\ [](\A t \in DOMAIN options.initialTrackTimestamps :
          /\ Has(state.trackTimestamps, t)
          /\ state.trackTimestamps[t] >= options.initialTrackTimestamps[t])
  /\ [][obs'.gen = obs.gen =>
          \A t \in DOMAIN state.trackTimestamps :
            /\ Has(state'.trackTimestamps, t)
            /\ state'.trackTimestamps[t] >= state.trackTimestamps[t]]_vars

C4_Witness ==
  /\ obs.gen = 1
  /\ Get(options.initialTrackTimestamps, 1, 0) > 0
  /\ Len(obs.last) = 1
  /\ obs.last[1].ok
  /\ obs.last[1].dur[1] = 1
  /\ Get(obs.last[1].base, 1, 0) = 40

\* C5: while no clamp fires and no rewrite fails, the tfdt written into the
\* n-th moof of a track is the track's initial counter plus the trun
\* durations of its n - 1 earlier moofs, each track on its own.
C5_TfdtIsSumOfEarlierDurations ==
  \A t \in DOMAIN obs.lastTfdt :
    (t \notin obs.clamped /\ ~obs.failed) =>
      obs.lastTfdt[t] =
        Get(options.initialTrackTimestamps, t, 0) + obs.sumDur[t] - obs.lastDur[t]

C5_Witness ==
  /\ obs.gen = 1
  /\ Get(options.initialTrackTimestamps, 1, 0) > 0
  /\ obs.clamped = {}
  /\ ~obs.failed
  /\ Has(obs.lastTfdt, 2)
  /\ Has(obs.sumDur, 1)
  /\ obs.sumDur[1] > obs.lastDur[1]

\* C6: a moof reporting a nonzero duration d for a track with baseline b
\* advances the counter by exactly b, and adds b to the EXTINF accumulator,
\* when d > 20 b or d < b / 20 (integer division); by exactly d otherwise.
C6_ClampAdvance ==
  (Len(obs.last) = 1 /\ obs.last[1].ok) =>
    \A t \in DOMAIN obs.last[1].dur :
      LET d == obs.last[1].dur[t]
          b == Get(obs.last[1].base, t, 0)
          advance == IF d > 20 * b \/ d < b \div 20 THEN b ELSE d
      IN (d # 0 /\ b # 0) =>
           /\ state.trackTimestamps[t] = Get(obs.last[1].ts0, t, 0) + advance
           /\ state.segmentTrackDurations[t] = Get(obs.last[1].acc0, t, 0) + advance

C6_Witness ==
  /\ Len(obs.last) = 1
  /\ obs.last[1].ok
  /\ obs.last[1].dur[1] = 41
  /\ Get(obs.last[1].base, 1, 0) = 2
  /\ state.trackTimestamps[1] = Get(obs.last[1].ts0, 1, 0) + 2

\* C7: initVersion never decreases; a pipeline increments it at most once,
\* when its moov is received, and only if it was given no previous init
\* segment or the bytes differ; with an identical init it stays at
\* startingInitVersion; over a chain of handoffs it never decreases.
C7_InitVersionMonotone ==
  /\ [](/\ state.initVersion \in {StartingInitVersion, StartingInitVersion + 1}
        /\ (state.initVersion # StartingInitVersion) <=>
             /\ state.hasInit
             /\ \/ options.previousInitSegment = NoBuffer
                \/ state.initSegment # options.previousInitSegment)
  /\ [][/\ state'.initVersion >= state.initVersion
        /\ (state'.initVersion # state.initVersion) =>
             (obs'.gen = obs.gen /\ ~state.hasInit /\ state'.hasInit)]_vars

C7_Witness ==
  /\ obs.gen = 1
  /\ state.hasInit
  /\ state.initSegment = options.previousInitSegment
  /\ state.initVersion = 1

\* C8: a successor created with pendingDiscontinuity = true whose init
\* segment is identical to previousInitSegment keeps the init version and,
\* markDiscontinuity() not being called on it, publishes no playlist with a
\* discontinuity before its first segment.
C8_IdenticalInitNoDiscontinuity ==
  ( /\ options.pendingDiscontinuity
    /\ ~obs.marked
    /\ state.hasInit
    /\ state.initSegment = options.previousInitSegment ) =>
      /\ state.initVersion = StartingInitVersion
      /\ (obs.publisher = obs.gen => ~Marked(store.playlist, StartingSegmentIndex))

\* C9: a successor created with pendingDiscontinuity = true whose init
\* segment differs from previousInitSegment marks its first segment, and,
\* markDiscontinuity() not being called on it, only that one, with one
\* discontinuity tag followed by the init reference of the incremented
\* version.
C9_ChangedInitDiscontinuity ==
  ( /\ options.pendingDiscontinuity
    /\ ~obs.marked
    /\ state.hasInit
    /\ state.initSegment # options.previousInitSegment
    /\ obs.publisher = obs.gen ) =>
      /\ state.discontinuityIndices = {StartingSegmentIndex}
      /\ Listed(store.playlist, StartingSegmentIndex) =>
           MarkedIn(store.playlist, StartingSegmentIndex, StartingInitVersion + 1)

\* C10: after markDiscontinuity() on a pipeline that is not stopped, the
\* next segment the pipeline emits is recorded in discontinuityIndices.
C10_NextSegmentMarked ==
  \A k \in DOMAIN obs.emitted :
    obs.emitted[k].called => obs.emitted[k].index \in state.discontinuityIndices

\* The boxes of one type in a segment's bytes.
BoxesOf(data, type) == {p \in DOMAIN data : data[p].type = type}

\* The bytes hold a moof followed, later on, by an mdat.
HasFragment(data) ==
  \E p \in BoxesOf(data, "moof") : \E q \in BoxesOf(data, "mdat") : p < q

\* The media duration of a regular moof under the timescales of the moov
\* received, in microseconds.
FragmentMicros(timescales) ==
  SetMax({(NormalMoof.dur[t] * 1000000) \div timescales[t] : t \in DOMAIN timescales})

\* The input follows the ingest contract, and neither the supervisor nor the
\* end of the stream has cut a segment short.
Undisturbed == obs.ingest # "bad" /\ ~obs.marked /\ ~state.stopped

\* C11: a pipeline that has emitted nothing emits its first segment when the
\* second moof arrives, whatever the time elapsed; the segment has index
\* startingSegmentIndex, holds exactly the first moof + mdat pair, and lasts
\* that moof's media duration.
C11_FirstSegmentFastPath ==
  Undisturbed =>
    /\ Len(obs.emitted) = 0 => Cardinality(BoxesOf(state.fragmentBuffer, "moof")) <= 1
    /\ Len(obs.emitted) >= 1 =>
         /\ obs.emitted[1].index = StartingSegmentIndex
         /\ obs.emitted[1].duration = FragmentMicros(state.trackTimescales)
         /\ Has(store.segments, StartingSegmentIndex) =>
              /\ Cardinality(BoxesOf(store.segments[StartingSegmentIndex], "moof")) = 1
              /\ Cardinality(BoxesOf(store.segments[StartingSegmentIndex], "mdat")) = 1
              /\ HasFragment(store.segments[StartingSegmentIndex])

\* C12: under the ingest contract (styp / sidx anywhere after the init,
\* before the first moof too), every segment emitted holds at least one
\* moof + mdat pair.
C12_SegmentsHoldAFragment ==
  Undisturbed =>
    \A k \in DOMAIN obs.emitted :
      Has(store.segments, obs.emitted[k].index) =>
        HasFragment(store.segments[obs.emitted[k].index])

\* The segment lines of a playlist, in order, and the indices they name.
SegmentEntries(playlist) == SelectSeq(playlist, LAMBDA l : l.tag = "segment")

ListedIndices(playlist) ==
  {playlist[p].val : p \in {q \in DOMAIN playlist : playlist[q].tag = "segment"}}

\* The live pipeline published the playlist the store holds.
Published == obs.publisher = obs.gen

\* C13: the playlist published at a segment emission lists exactly the
\* indices from max(0, nextIndex - maxSegments) to nextIndex - 1, ascending,
\* and its #EXT-X-MEDIA-SEQUENCE is max(0, nextIndex - maxSegments).
C13_PlaylistWindow ==
  Published =>
    LET lowest == Max(0, state.segmentIndex - MaxSegments)
        entries == SegmentEntries(store.playlist)
    IN /\ Len(entries) = state.segmentIndex - lowest
       /\ \A p \in DOMAIN entries : entries[p].val = lowest + p - 1
       /\ SelectSeq(store.playlist, LAMBDA l : l.tag = "#EXT-X-MEDIA-SEQUENCE")
            = <<Line("#EXT-X-MEDIA-SEQUENCE", lowest)>>

C13_Witness ==
  /\ Published
  /\ state.segmentIndex > MaxSegments
  /\ Len(SegmentEntries(store.playlist)) = MaxSegments

C15_PlaylistMonotone ==
  [][(store.playlist # NoBuffer /\ store'.playlist # store.playlist) =>
       LET old == ListedIndices(store.playlist)
           new == ListedIndices(store'.playlist)
           nextIndex == SetMax(new \cup {0 - 1}) + 1
       IN /\ \A N \in old : N \in new \/ N < nextIndex - MaxSegments
          /\ \A N \in new \ old : \A M \in old : N > M]_vars

C15_Witness ==
  /\ Published
  /\ obs.gen = 1
  /\ \E j \in obs.prevEmitted : j \notin ListedIndices(store.playlist)
  /\ \E j \in obs.prevEmitted : j \in ListedIndices(store.playlist)

\* The version of the #EXT-X-MAP line that covers line p of a playlist: the
\* last one above it.
CoveringMap(playlist, p) ==
  LET maps == {q \in 1 .. (p - 1) : playlist[q].tag = "#EXT-X-MAP"}
  IN playlist[SetMax(maps)].val

\* C16: in a playlist, every listed segment emitted while the init version
\* was K is covered by an #EXT-X-MAP of version K (the header's or the one
\* after a discontinuity) and by no other.  Stated for streams whose input
\* follows the ingest contract and whose segments were all emitted after
\* their pipeline's init.
C16_SegmentsUnderTheirMap ==
  ( /\ store.playlist # NoBuffer
    /\ obs.ingest # "bad"
    /\ \A k \in DOMAIN obs.emitted : obs.emitted[k].hadInit ) =>
      \A p \in DOMAIN store.playlist :
        (store.playlist[p].tag = "segment" /\ Has(obs.versionOf, store.playlist[p].val)) =>
          CoveringMap(store.playlist, p) = obs.versionOf[store.playlist[p].val]

\* A step in which stop() ran on a pipeline that was not stopped: only
\* stop() detaches the listeners.
StopStep == obs'.gen = obs.gen /\ state.listening /\ ~state'.listening

\* C17: the first stop() on a running pipeline stops it, detaches the
\* listeners and calls onStop exactly once.
C17_StopCallsOnStop ==
  [][StopStep => (state'.stopped /\ cb'.onStop = cb.onStop + 1)]_vars

\* C18: onError is invoked at most once over the life of a pipeline, and
\* once it has been invoked the pipeline is stopped.
C18_OnErrorOnceThenStopped ==
  /\ cb.onError <= 1
  /\ cb.onError >= 1 => state.stopped

\* C19: on a stopped pipeline a data chunk, an end or error event,
\* markDiscontinuity() and stop() change neither the segment index, the
\* store (segments, playlist, init), the init version, the track timestamps
\* nor discontinuityIndices, and invoke no callback.
C19_StoppedIsTerminal ==
  [][(state.stopped /\ obs'.gen = obs.gen) =>
       /\ state'.stopped
       /\ state'.segmentIndex = state.segmentIndex
       /\ store' = store
       /\ state'.initVersion = state.initVersion
       /\ state'.trackTimestamps = state.trackTimestamps
       /\ state'.discontinuityIndices = state.discontinuityIndices
       /\ cb' = cb]_vars

C19_Witness ==
  /\ state.stopped
  /\ obs.ignored
  /\ Len(state.fragmentBuffer) > 0
  /\ ~state.pendingDiscontinuity

\* C20: stop() stores no segment and leaves the segment index and the
\* buffered fragments as they are; the end of the stream stores a non-empty
\* fragment buffer as a last segment, then stops the pipeline.
C20_StopDoesNotFlush ==
  [][/\ StopStep =>
          /\ store' = store
          /\ state'.segmentIndex = state.segmentIndex
          /\ state'.fragmentBuffer = state.fragmentBuffer
     /\ (cb'.onStop # cb.onStop /\ Len(state.fragmentBuffer) > 0) =>
          /\ state'.stopped
          /\ state'.segmentIndex = state.segmentIndex + 1
          /\ Has(store'.segments, state.segmentIndex)
          /\ store'.segments[state.segmentIndex] = state.fragmentBuffer]_vars

C20_Witness ==
  /\ state.stopped
  /\ ~state.listening
  /\ Len(state.fragmentBuffer) > 0
  /\ Len(obs.emitted) = 0

\* A step of the live pipeline in which a moof arrived, and the moof.
MoofStep == obs'.gen = obs.gen /\ Len(obs'.last) = 1

ArrivedMoof == obs'.last[1]

\* The buffer the moof was appended to: emptied when the arrival cut a segment.
BufferBeforeAppend == IF ArrivedMoof.cut THEN <<>> ELSE state.fragmentBuffer

\* C21: a moof whose rewrite fails neither stops the pipeline nor invokes a
\* callback; it is appended to the current segment unmodified, no track
\* counter moves, nothing is accumulated for the segment, and a moof whose
\* rewrite succeeds is stamped with the counters as they stood, so the next
\* valid moof starts from the values held before the failure.
C21_FailedRewritePassesThrough ==
  [][/\ (MoofStep /\ ~ArrivedMoof.ok) =>
          /\ ~state'.stopped
          /\ cb' = cb
          /\ state'.fragmentBuffer =
               Append(BufferBeforeAppend,
                      [type |-> "moof", tfdt |-> EmptyMap, dur |-> ArrivedMoof.dur])
          /\ state'.trackTimestamps = state.trackTimestamps
          /\ state'.segmentTrackDurations =
               (IF ArrivedMoof.cut THEN EmptyMap ELSE state.segmentTrackDurations)
     /\ (MoofStep /\ ArrivedMoof.ok) =>
          /\ Len(state'.fragmentBuffer) = Len(BufferBeforeAppend) + 1
          /\ \A t \in DOMAIN ArrivedMoof.dur :
               state'.fragmentBuffer[Len(state'.fragmentBuffer)].tfdt[t]
                 = Get(state.trackTimestamps, t, 0)]_vars

\* A valid moof was rewritten after a failed one, from counters above zero.
C21_Witness ==
  /\ obs.failed
  /\ Len(obs.last) = 1
  /\ obs.last[1].ok
  /\ \E t \in DOMAIN obs.last[1].ts0 : obs.last[1].ts0[t] > 0
  /\ ~state.stopped

\* C22: every moof whose rewrite fails increases the indeterminate counter
\* reported by getKeyframeStats() by one.
C22_FailedRewriteCounted ==
  [][(MoofStep /\ ~ArrivedMoof.ok) =>
       GetKeyframeStats(state').indeterminateCount
         = GetKeyframeStats(state).indeterminateCount + 1]_vars

\* A step in which the pipeline stopped on its own: the input ended or
\* raised an error (stop() is the step that detaches the listeners).
SelfStopStep ==
  obs'.gen = obs.gen /\ ~state.stopped /\ state'.stopped /\ state'.listening

\* C23: onStop is invoked once when the pipeline stops on its own, at the
\* end of the input as well as at an input error, and never more than once
\* for one pipeline.
C23_OnStopWhenStoppingItself ==
  [][/\ SelfStopStep => cb'.onStop = cb.onStop + 1
     /\ obs'.gen = obs.gen => cb'.onStop <= 1]_vars

\* The values of the lines of a playlist that carry the given tag.
ValuesOf(playlist, tag) ==
  {playlist[p].val : p \in {q \in DOMAIN playlist : playlist[q].tag = tag}}

\* The durations recorded for the segments of the window (the configured
\* duration for a segment the live pipeline did not emit), in microseconds.
WindowDurations ==
  {Get(state.segmentDurations, i, SegmentDuration * 1000000) :
     i \in ListedIndices(store.playlist)}

\* C24: in every playlist revision #EXT-X-TARGETDURATION is one value, the
\* ceiling (in seconds) of the largest duration of the segments listed but
\* not less than the configured segment duration, and it is at least every
\* #EXTINF value printed in the revision.
C24_TargetDuration ==
  Published =>
    LET target == ValuesOf(store.playlist, "#EXT-X-TARGETDURATION")
        extinf == ValuesOf(store.playlist, "#EXTINF")
    IN /\ target = {Max(SegmentDuration, CeilSeconds(SetMax(WindowDurations \cup {0})))}
       /\ \A t \in target : \A e \in extinf : t * 1000 >= e

\* A revision that lists a segment longer than the configured duration whose
\* #EXTINF is printed rounded up.
C24_Witness ==
  /\ Published
  /\ \E d \in WindowDurations :
       /\ d > SegmentDuration * 1000000
       /\ ToFixed3(d) * 1000 > d

\* The lines of a playlist that carry the given tag.
LinesOf(playlist, tag) == {p \in DOMAIN playlist : playlist[p].tag = tag}

\* The whole scenario stream arrived, one moof (with its mdat) per second,
\* and the stream then ended.
SteadyDone == obs.onTime /\ obs.boxesLeft = 0 /\ cb.onStop = 1

\* C25: the scenario 'fresh stream, steady state' (segmentDuration 2,
\* maxSegments 4, six one-second fragments arriving one per second, end of
\* stream) ends with exactly three segments emitted, two moofs in each, init
\* version 1, #EXT-X-MEDIA-SEQUENCE 0 and three #EXTINF:2.000 entries.
C25_SteadyState ==
  SteadyDone =>
    /\ Len(obs.emitted) = 3
    /\ DOMAIN store.segments = Indices(obs.emitted)
    /\ \A i \in DOMAIN store.segments :
         Cardinality(BoxesOf(store.segments[i], "moof")) = 2
    /\ state.initVersion = 1
    /\ ValuesOf(store.playlist, "#EXT-X-MEDIA-SEQUENCE") = {0}
    /\ Cardinality(LinesOf(store.playlist, "#EXTINF")) = 3
    /\ ValuesOf(store.playlist, "#EXTINF") = {2000}

\* C26: once the moov has been received the init segment is stored and the
\* init version is at least 1, whatever the creation options.
C26_InitVersionAtLeastOne ==
  state.hasInit =>
    /\ store.init # NoBuffer
    /\ state.initSegment # NoBuffer
    /\ state.initVersion >= 1

\* A step of the live pipeline in which a box arrived.
BoxStep == obs'.gen = obs.gen /\ obs'.boxesLeft < obs.boxesLeft

\* The step emitted the buffered fragments as the next segment.
EmitsSegment ==
  /\ state'.segmentIndex = state.segmentIndex + 1
  /\ Len(obs'.emitted) = Len(obs.emitted) + 1
  /\ Has(store'.segments, state.segmentIndex)
  /\ store'.segments[state.segmentIndex] = state.fragmentBuffer

\* The step emitted nothing.
EmitsNothing ==
  /\ state'.segmentIndex = state.segmentIndex
  /\ obs'.emitted = obs.emitted
  /\ store'.segments = store.segments

\* C27: after its first segment a pipeline cuts at a moof arrival, before
\* appending the moof, exactly when the buffer is non-empty and the segment
\* has lasted the configured duration; an mdat or a minor box never cuts;
\* and no step of the pipeline emits a segment or advances the index while
\* the buffer is empty.
C27_CutPolicy ==
  [][/\ (MoofStep /\ state.firstSegmentEmitted) =>
          IF Len(state.fragmentBuffer) > 0 /\ elapsed >= SegmentDuration
            THEN EmitsSegment /\ Len(state'.fragmentBuffer) = 1
            ELSE EmitsNothing
                 /\ Len(state'.fragmentBuffer) = Len(state.fragmentBuffer) + 1
     /\ (BoxStep /\ ~MoofStep) => EmitsNothing
     /\ (obs'.gen = obs.gen /\ Len(state.fragmentBuffer) = 0) => EmitsNothing]_vars

\* A moof joined a non-empty buffer without a cut, after the first segment.
C27_Witness ==
  /\ state.firstSegmentEmitted
  /\ Len(obs.last) = 1
  /\ ~obs.last[1].cut
  /\ Len(state.fragmentBuffer) >= 2
  /\ elapsed < SegmentDuration

\* C28: a track's expected-duration baseline is set once, by the first
\* moof that reports a nonzero duration for the track, to that duration, and
\* no later step of the pipeline changes or removes it.
C28_BaselineSetOnce ==
  [][obs'.gen = obs.gen =>
       LET before == state.trackExpectedDurations
           after == state'.trackExpectedDurations
       IN /\ \A t \in DOMAIN before : Has(after, t) /\ after[t] = before[t]
          /\ \A t \in (DOMAIN after) \ (DOMAIN before) :
               /\ MoofStep
               /\ ArrivedMoof.ok
               /\ Has(ArrivedMoof.dur, t)
               /\ ArrivedMoof.dur[t] # 0
               /\ after[t] = ArrivedMoof.dur[t]
          /\ (MoofStep /\ ArrivedMoof.ok) =>
               \A t \in DOMAIN ArrivedMoof.dur :
                 ArrivedMoof.dur[t] # 0 => Has(after, t)]_vars

\* A moof with another nonzero duration, inside the sanity range, arrived for
\* a track whose baseline was set, after a failed moof.
C28_Witness ==
  /\ obs.failed
  /\ Len(obs.last) = 1
  /\ obs.last[1].ok
  /\ \E t \in (DOMAIN obs.last[1].base) \cap (DOMAIN obs.last[1].dur) :
       /\ obs.last[1].dur[t] > obs.last[1].base[t]
       /\ ~ClampFires(obs.last[1].base[t], obs.last[1].dur[t])
       /\ state.trackExpectedDurations[t] = obs.last[1].base[t]

\* What a buffered moof counted for a track: nothing when its rewrite
\* failed or the duration is zero, the baseline when the sanity check fired,
\* else the trun duration.
CountedFor(moof, t, baseline) ==
  IF moof.tfdt = EmptyMap \/ ~Has(moof.dur, t) THEN 0
  ELSE IF moof.dur[t] = 0 THEN 0
  ELSE IF ClampFires(Get(baseline, t, 0), moof.dur[t]) THEN baseline[t]
  ELSE moof.dur[t]

\* The sum of what the moofs among the first n boxes counted for the track.
RECURSIVE CountedIn(_, _, _, _)
CountedIn(data, n, t, baseline) ==
  IF n = 0 THEN 0
  ELSE CountedIn(data, n - 1, t, baseline)
       + (IF data[n].type = "moof" THEN CountedFor(data[n], t, baseline) ELSE 0)

\* The media duration of the buffered fragments, in microseconds: the
\* largest, over the tracks with a timescale, of counted units / timescale.
MediaMicros(data, timescales, baseline) ==
  SetMax({0} \cup {(CountedIn(data, Len(data), t, baseline) * 1000000) \div timescales[t] :
                     t \in {u \in DOMAIN timescales : timescales[u] > 0}})

\* A step of the live pipeline that stored a segment.
EmissionStep == obs'.gen = obs.gen /\ Len(obs'.emitted) = Len(obs.emitted) + 1

\* C29: the duration recorded for an emitted segment is the largest, over
\* the tracks with a known timescale, of the effective durations of exactly
\* the moofs the segment holds divided by the timescale; when that is zero
\* it is the time elapsed since the segment started; and it is never below
\* 0.1 second.
C29_RecordedDuration ==
  [][EmissionStep =>
       LET media == MediaMicros(state.fragmentBuffer, state.trackTimescales,
                                state.trackExpectedDurations)
           recorded == state'.segmentDurations[state.segmentIndex]
       IN /\ EmitsSegment
          /\ Has(state'.segmentDurations, state.segmentIndex)
          /\ recorded = Max(MIN_DURATION_MS * 1000,
                            IF media > 0 THEN media ELSE elapsed * 1000000)
          /\ recorded >= MIN_DURATION_MS * 1000
          /\ obs'.emitted[Len(obs'.emitted)].duration = recorded]_vars

\* A later segment of the pipeline holds two rewritten moofs, one of them
\* clamped, and its duration comes from the media.
C29_Witness ==
  \E i \in (DOMAIN store.segments) \cap (DOMAIN state.segmentDurations) :
    /\ i > StartingSegmentIndex
    /\ Cardinality({p \in BoxesOf(store.segments[i], "moof") :
                      store.segments[i][p].tfdt # EmptyMap}) = 2
    /\ \E p \in BoxesOf(store.segments[i], "moof") :
         CountedFor(store.segments[i][p], 1, state.trackExpectedDurations)
           # Get(store.segments[i][p].dur, 1, 0)
    /\ state.segmentDurations[i]
         = MediaMicros(store.segments[i], state.trackTimescales,
                       state.trackExpectedDurations)

\* C30: once the pipeline has emitted a segment, the keys of its duration
\* map are exactly the indices it emitted that lie in the playlist window
\* [max(0, nextIndex - maxSegments), nextIndex): at most maxSegments entries,
\* every one of them listed in the playlist.
C30_DurationMapWindow ==
  Len(obs.emitted) >= 1 =>
    /\ DOMAIN state.segmentDurations
         = {i \in Indices(obs.emitted) :
              /\ i >= Max(0, state.segmentIndex - MaxSegments)
              /\ i < state.segmentIndex}
    /\ Cardinality(DOMAIN state.segmentDurations) <= MaxSegments
    /\ Published => DOMAIN state.segmentDurations \subseteq ListedIndices(store.playlist)

\* The pipeline emitted more segments than the window holds: the duration
\* of its oldest segment has been pruned.
C30_Witness ==
  /\ Cardinality(DOMAIN state.segmentDurations) = MaxSegments
  /\ \E i \in Indices(obs.emitted) : ~Has(state.segmentDurations, i)

----------------------------------------------------------------------------
(* Playlist revisions across a handoff. *)

MaxRevisionBoxes == 4

\* The successor that replaces a capture which ended after its first
\* segment, whatever the moov of that capture was.
InitRevisions ==
  /\ config = DefaultConfig
  /\ \E moov \in MoovBoxes :
       Starts([HandoffWorld(Ended(HandleBox(HandleBox(InitialWorld, FtypBox), moov))) EXCEPT
                 !.obs.boxesLeft = MaxRevisionBoxes])

NextRevisions ==
  \/ DataFtyp
  \/ DataMoov
  \/ DataMoof
  \/ DataMdat
  \/ MarkDiscontinuity
  \/ HandleEnd
  \/ Tick

\* One successor pipeline publishing playlist revisions while the outgoing
\* pipeline's segment, of any recorded duration, is still in the window.
SpecRevisions == InitRevisions /\ [][NextRevisions]_vars

\* The #EXTINF value a playlist gives for segment i: the line above the
\* segment's own line.
ExtinfOf(playlist, i) ==
  LET p == CHOOSE q \in DOMAIN playlist :
             playlist[q].tag = "segment" /\ playlist[q].val = i
  IN playlist[p - 1].val

\* C31: the #EXTINF value listed for a segment index is the same in every
\* playlist revision that lists that index, the revisions a successor
\* pipeline publishes after a handoff included: from one revision to the
\* next no index listed by both changes its #EXTINF value.  Stated for
\* streams whose input follows the ingest contract.
C31_ExtinfStable ==
  [][ (store.playlist # NoBuffer /\ store'.playlist # NoBuffer /\ obs'.ingest # "bad") =>
        \A i \in ListedIndices(store.playlist) \cap ListedIndices(store'.playlist) :
          ExtinfOf(store'.playlist, i) = ExtinfOf(store.playlist, i) ]_vars

\* C32: in every playlist revision no listed segment is governed by an
\* #EXT-X-MAP whose version is newer than the init version that was current
\* when the segment was emitted; after a handoff whose init changed, the
\* outgoing pipeline's segments still in the window are not under the new
\* version's MAP.  Stated for streams whose input follows the ingest
\* contract and whose segments were all emitted after their pipeline's init.
C32_NoNewerMap ==
  ( /\ store.playlist # NoBuffer
    /\ obs.ingest # "bad"
    /\ \A k \in DOMAIN obs.emitted : obs.emitted[k].hadInit ) =>
      \A p \in DOMAIN store.playlist :
        (store.playlist[p].tag = "segment" /\ Has(obs.versionOf, store.playlist[p].val)) =>
          ~(CoveringMap(store.playlist, p) > obs.versionOf[store.playlist[p].val])

----------------------------------------------------------------------------
(* Box conservation. *)

MaxConservedBoxes == 4

\* A pipeline that has just stored its init segment; from here on the run
\* remembers every box that arrives and every box handed to storeSegment.
InitConservation ==
  Starts([WithInit(InitialWorld) EXCEPT
            !.obs = [@ EXCEPT !.boxesLeft = MaxConservedBoxes, !.ingest = "ready"]
                      @@ [arrived |-> <<>>, stored |-> <<>>]])

\* The data of the segment a handler stored, if it stored one: outputSegment
\* stores at the index the pipeline had before.
StoredBy(w) ==
  IF w.state.segmentIndex # state.segmentIndex
    THEN w.store.segments[state.segmentIndex]
    ELSE <<>>

\* The handler's result, with the boxes it received and stored remembered.
Conserving(w, received) ==
  Becomes([w EXCEPT !.obs.arrived = @ \o received,
                    !.obs.stored = @ \o StoredBy(w)])

\* The moofs of this stream: well formed, or one the rewriter cannot parse.
ConservedMoofs == {k \in MoofKinds : k.dur = NormalMoof.dur}

\* stream 'data' carrying one complete media or minor box
ConservedData ==
  /\ obs.boxesLeft > 0
  /\ ~state.stopped
  /\ \E box \in {MoofBox(k) : k \in ConservedMoofs} \cup {MdatBox, StypBox} :
       Conserving([HandleBox(World, box) EXCEPT
                     !.obs.boxesLeft = @ - 1,
                     !.obs.ingest = IngestAfter(@, box.type)], <<box>>)
  /\ UNCHANGED <<options, cb, config, yttv, click, sling, providers>>

\* markDiscontinuity() between two boxes
ConservedMark ==
  /\ ~state.stopped
  /\ Conserving(MarkDiscontinuityOp(World), <<>>)
  /\ UNCHANGED <<options, cb, config, yttv, click, sling, providers>>

\* stream 'end'
ConservedEnd ==
  /\ ~state.stopped
  /\ Conserving(HandleEndOp(World), <<>>)
  /\ cb' = [cb EXCEPT !.onStop = @ + 1]
  /\ UNCHANGED <<options, config, yttv, click, sling, providers>>

NextConservation ==
  \/ ConservedData
  \/ ConservedMark
  \/ ConservedEnd
  \/ Tick

\* One pipeline from its init segment to the natural end of its stream.
SpecConservation == InitConservation /\ [][NextConservation]_vars

\* What identifies a box as it arrives.
ArrivedId(box) ==
  IF box.type = "moof" THEN [type |-> "moof", dur |-> box.dur, ok |-> box.ok] ELSE box

\* What identifies a box of a segment, whatever tfdt values were written into
\* it: a moof the rewriter could not parse carries none.
StoredId(box) ==
  IF box.type = "moof"
    THEN [type |-> "moof", dur |-> box.dur, ok |-> box.tfdt # EmptyMap]
    ELSE box

ArrivedIds(boxes) == [p \in DOMAIN boxes |-> ArrivedId(boxes[p])]

StoredIds(boxes) == [p \in DOMAIN boxes |-> StoredId(boxes[p])]

\* C33: for a stream that ends naturally, the boxes of all emitted segments,
\* in index order, are the boxes received after the init segment was
\* completed, in arrival order (moof, mdat and minor boxes; a moof is the
\* same box after its tfdt rewrite): none is dropped, duplicated or
\* reordered.  While the stream runs, the boxes not yet in a segment are
\* those in the fragment buffer.
C33_BoxConservation ==
  /\ state.stopped => StoredIds(obs.stored) = ArrivedIds(obs.arrived)
  /\ ~state.stopped => StoredIds(obs.stored \o state.fragmentBuffer) = ArrivedIds(obs.arrived)

\* A stream that ended after several segments, a minor box and a moof whose
\* rewrite failed among its boxes.
C33_Witness ==
  /\ state.stopped
  /\ Len(obs.emitted) >= 2
  /\ Len(obs.arrived) = MaxConservedBoxes
  /\ \E p \in DOMAIN obs.arrived : obs.arrived[p].type = "styp"
  /\ \E p \in DOMAIN obs.arrived : obs.arrived[p].type = "moof" /\ ~obs.arrived[p].ok

----------------------------------------------------------------------------
(* youtubeTv.ts: the watch URL cache and the guide strategy.  A string is the *)
(* sequence of its characters.                                               *)

YOUTUBE_TV_BASE_URL == "https://tv.youtube.com"

EMPTY_DISCOVERY_RECOVERY_THRESHOLD == 3

MaxEmptyDiscoveries == 4

Digits == {"0", "1", "2", "3", "4", "5", "6", "7", "8", "9"}

LowerChar(ch) ==
  CASE ch = "B" -> "b"
    [] ch = "C" -> "c"
    [] ch = "G" -> "g"
    [] ch = "N" -> "n"
    [] ch = "P" -> "p"
    [] ch = "S" -> "s"
    [] ch = "W" -> "w"
    [] OTHER -> ch

\* String.prototype.toLowerCase
ToLowerCase(str) == [p \in DOMAIN str |-> LowerChar(str[p])]

\* String.prototype.startsWith
StartsWith(str, prefix) ==
  /\ Len(str) >= Len(prefix)
  /\ SubSeq(str, 1, Len(prefix)) = prefix

\* Channel names of the guide and channel selectors.
Cnn == <<"C", "N", "N">>
Nbc == <<"N", "B", "C">>
Nbc5 == <<"N", "B", "C", " ", "5">>
NbcSports == <<"N", "B", "C", " ", "S">>
Cw == <<"C", "W">>
Wgn == <<"W", "G", "N">>

\* CHANNEL_ALTERNATES: the "cw" entry (the "pbs" entry works the same way).
CHANNEL_ALTERNATES == (ToLowerCase(Cw) :> <<Wgn>>)

Selectors == {Cnn, Nbc, Cw}

\* What discoverGuideChannels can return: no channel (a degraded guide), or
\* the channels of the guide.
Guides ==
  { <<>>,
    << [name |-> Cnn, watchPath |-> "watch/1"],
       [name |-> NbcSports, watchPath |-> "watch/2"],
       [name |-> Nbc5, watchPath |-> "watch/3"],
       [name |-> Wgn, watchPath |-> "watch/4"] >> }

\* YOUTUBE_TV_BASE_URL + "/" + ch.watchPath
WatchUrl(watchPath) == <<YOUTUBE_TV_BASE_URL, "/", watchPath>>

\* yttvWatchUrlCache is a Map: its entries keep their insertion order.
CacheKeys(cache) == {cache[p].key : p \in DOMAIN cache}

CacheGet(cache, key) ==
  IF key \in CacheKeys(cache)
    THEN cache[CHOOSE p \in DOMAIN cache : cache[p].key = key].url
    ELSE NoUrl

CacheSet(cache, key, url) ==
  IF key \in CacheKeys(cache)
    THEN [p \in DOMAIN cache |-> IF cache[p].key = key THEN [key |-> key, url |-> url] ELSE cache[p]]
    ELSE Append(cache, [key |-> key, url |-> url])

CacheDelete(cache, key) == SelectSeq(cache, LAMBDA e : e.key # key)

SetMin(S) == CHOOSE x \in S : \A y \in S : x <= y

\* findWatchUrl, tier 2: the key is the name, a space and then a digit.
PrefixDigit(key, name) ==
  /\ StartsWith(key, name \o <<" ">>)
  /\ Len(key) > Len(name) + 1
  /\ key[Len(name) + 2] \in Digits

\* findWatchUrl, tier 3: the key is the name followed by " (".
Parenthetical(key, name) == StartsWith(key, name \o <<" ", "(">>)

\* findWatchUrl, the loop over namesToTry: the URL found (or none) and the
\* cache afterwards.
RECURSIVE TryNames(_, _, _)
TryNames(cache, lower, names) ==
  IF names = <<>> THEN [url |-> NoUrl, cache |-> cache]
  ELSE
    LET name == Head(names)
        exact == CacheGet(cache, name)
        tier2 == {p \in DOMAIN cache : PrefixDigit(cache[p].key, name)}
        tier3 == {p \in DOMAIN cache : Parenthetical(cache[p].key, name)}
    IN IF exact # NoUrl
         THEN [url |-> exact,
               cache |-> IF name # lower THEN CacheSet(cache, lower, exact) ELSE cache]
       ELSE IF tier2 # {}
         THEN [url |-> cache[SetMin(tier2)].url,
               cache |-> CacheSet(cache, lower, cache[SetMin(tier2)].url)]
       ELSE IF tier3 # {}
         THEN [url |-> cache[SetMin(tier3)].url,
               cache |-> CacheSet(cache, lower, cache[SetMin(tier3)].url)]
       ELSE TryNames(cache, lower, Tail(names))

FindWatchUrl(cache, channelName) ==
  LET lower == ToLowerCase(channelName)
      alternates == Get(CHANNEL_ALTERNATES, lower, <<>>)
      namesToTry == <<lower>> \o [p \in DOMAIN alternates |-> ToLowerCase(alternates[p])]
  IN TryNames(cache, lower, namesToTry)

\* youtubeGridStrategy, the cache population: one set per discovered channel.
RECURSIVE Populate(_, _)
Populate(cache, channels) ==
  IF channels = <<>> THEN cache
  ELSE Populate(CacheSet(cache, ToLowerCase(Head(channels).name), WatchUrl(Head(channels).watchPath)),
                Tail(channels))

GuideKeysOf(channels) == {ToLowerCase(channels[p].name) : p \in DOMAIN channels}

\* What the properties remember of a step.
YttvStep(op, arg, channels, url) ==
  << [op |-> op, arg |-> arg, channels |-> channels, url |-> url] >>

Segmenter == <<state, options, store, cb, elapsed, config, obs>>

\* invalidateYttvDirectUrl(channelSelector), called for the URL cached under
\* the selector.
InvalidateYttvDirectUrl ==
  /\ \E channelSelector \in Selectors :
       LET lower == ToLowerCase(channelSelector) IN
       yttv' = [yttv EXCEPT
         !.cache = CacheDelete(@, lower),
         !.guideKeys = @ \ {lower},
         !.invalidated = IF lower \in CacheKeys(yttv.cache)
                           THEN Put(@, lower, CacheGet(yttv.cache, lower)) ELSE @,
         !.last = YttvStep("invalidate", lower, 0, NoUrl)]
  /\ UNCHANGED <<Segmenter, click, sling, providers>>

\* clearYttvCache
ClearYttvCache ==
  /\ yttv' = [yttv EXCEPT
       !.cache = <<>>,
       !.consecutiveEmptyDiscoveries = 0,
       !.guideKeys = {},
       !.invalidated = EmptyMap,
       !.last = YttvStep("clear", <<>>, 0, NoUrl)]
  /\ UNCHANGED <<Segmenter, click, sling, providers>>

\* resolveYttvDirectUrl(channelSelector)
ResolveYttvDirectUrl ==
  /\ \E channelSelector \in Selectors :
       LET found == FindWatchUrl(yttv.cache, channelSelector) IN
       yttv' = [yttv EXCEPT
         !.cache = found.cache,
         !.last = YttvStep("resolve", ToLowerCase(channelSelector), 0, found.url)]
  /\ UNCHANGED <<Segmenter, click, sling, providers>>

\* youtubeGridStrategy up to its first await: the guide grid loads, or the
\* wait for it times out and the run returns.
StrategyStart ==
  /\ \E r \in Runs, channelName \in Selectors, loaded \in BOOLEAN :
       /\ yttv.pc[r] = "idle"
       /\ yttv' = [yttv EXCEPT
            !.pc[r] = IF loaded THEN "discovering" ELSE "idle",
            !.channelName[r] = IF loaded THEN channelName ELSE <<>>,
            !.last = YttvStep("start", <<>>, 0, NoUrl)]
  /\ UNCHANGED <<Segmenter, click, sling, providers>>

StrategyFinishCounting(y, r, channels) ==
  [y EXCEPT !.pc[r] = "idle",
            !.channelName[r] = <<>>,
            !.cache = FindWatchUrl(Populate(y.cache, channels), y.channelName[r]).cache,
            !.guideKeys = @ \cup GuideKeysOf(channels),
            !.invalidated = IF channels = <<>> THEN @ ELSE EmptyMap,
            !.last = YttvStep("returned", <<>>, Len(channels), NoUrl)]

\* youtubeGridStrategy from the discovered channels on (after the recovery,
\* if there was one): an empty guide returns; otherwise the counter is reset,
\* the cache populated and the target looked up.
StrategyFinish(y, r, channels) ==
  IF channels = <<>>
    THEN [y EXCEPT !.pc[r] = "idle",
                   !.channelName[r] = <<>>,
                   !.last = YttvStep("returned", <<>>, 0, NoUrl)]
    ELSE LET found == FindWatchUrl(Populate(y.cache, channels), y.channelName[r])
         IN [y EXCEPT
               !.pc[r] = "idle",
               !.channelName[r] = <<>>,
               !.consecutiveEmptyDiscoveries = 0,
               !.cache = found.cache,
               !.guideKeys = @ \cup GuideKeysOf(channels),
               !.invalidated = EmptyMap,
               !.last = YttvStep("returned", <<>>, Len(channels), NoUrl)]

\* youtubeGridStrategy when discoverGuideChannels returns.
StrategyDiscovered ==
  /\ \E r \in Runs, channels \in Guides :
       /\ yttv.pc[r] = "discovering"
       /\ channels = <<>> => yttv.consecutiveEmptyDiscoveries < MaxEmptyDiscoveries
       /\ yttv' =
            IF channels = <<>>
              THEN LET y == [yttv EXCEPT !.consecutiveEmptyDiscoveries = @ + 1] IN
                   IF y.consecutiveEmptyDiscoveries >= EMPTY_DISCOVERY_RECOVERY_THRESHOLD
                     THEN [y EXCEPT !.pc[r] = "recovering",
                                    !.last = YttvStep("recovering", <<>>, 0, NoUrl)]
                     ELSE StrategyFinish(y, r, channels)
              ELSE StrategyFinish(yttv, r, channels)
  /\ UNCHANGED <<Segmenter, click, sling, providers>>

\* youtubeGridStrategy when attemptGuideRecovery returns.
StrategyRecovered ==
  /\ \E r \in Runs, channels \in Guides :
       /\ yttv.pc[r] = "recovering"
       /\ yttv' = StrategyFinish(yttv, r, channels)
  /\ UNCHANGED <<Segmenter, click, sling, providers>>

InitYttv == Starts(InitialWorld)

NextYttv ==
  \/ InvalidateYttvDirectUrl
  \/ ClearYttvCache
  \/ ResolveYttvDirectUrl
  \/ StrategyStart
  \/ StrategyDiscovered
  \/ StrategyRecovered

\* The YouTube TV strategy: tunes resolve, invalidate and run the guide
\* strategy, two runs at a time, and the browser restarts.
SpecYttv == InitYttv /\ [][NextYttv]_vars

\* The step is a call of the operation op.
YttvCall(op) == yttv' # yttv /\ yttv'.last[1].op = op

\* C34: invalidateYttvDirectUrl(channelSelector) removes only the cache entry
\* keyed by the lowercased channelSelector, and every cache entry created
\* from a guide name during channel discovery is left intact, whatever the
\* channelSelector is.
C34_InvalidateKeepsGuideEntries ==
  [][ YttvCall("invalidate") =>
        /\ \A k \in CacheKeys(yttv.cache) \ {yttv'.last[1].arg} :
             CacheGet(yttv'.cache, k) = CacheGet(yttv.cache, k)
        /\ \A k \in yttv.guideKeys \cap CacheKeys(yttv.cache) :
             CacheGet(yttv'.cache, k) = CacheGet(yttv.cache, k) ]_vars

\* C35: after invalidateYttvDirectUrl(sel) was called for the watch URL
\* cached for sel, resolveDirectUrl(sel) does not return that URL again
\* until the guide strategy has run and repopulated the cache.
C35_InvalidatedUrlNotResolved ==
  [][ (YttvCall("resolve") /\ Has(yttv.invalidated, yttv'.last[1].arg)) =>
        yttv'.last[1].url # yttv.invalidated[yttv'.last[1].arg] ]_vars

\* The run r left the state pc in this step.
Leaves(r, pc) == yttv.pc[r] = pc /\ yttv'.pc[r] # pc

\* C36: over any interleaving of strategy runs and cache clears,
\* attemptGuideRecovery is invoked only by a run whose discovery found zero
\* channels and that brought consecutiveEmptyDiscoveries to at least 3; the
\* counter is reset to 0 by every run that ends up with more than zero
\* channels (directly or after the recovery) and by clearYttvCache, and is
\* otherwise only ever incremented by 1, by a discovery that found nothing.
C36_EmptyGuideRecovery ==
  [][ /\ \A r \in Runs :
           (yttv'.pc[r] = "recovering" /\ yttv.pc[r] # "recovering") =>
             /\ yttv.pc[r] = "discovering"
             /\ yttv'.last[1].channels = 0
             /\ yttv'.consecutiveEmptyDiscoveries = yttv.consecutiveEmptyDiscoveries + 1
             /\ yttv'.consecutiveEmptyDiscoveries >= 3
      /\ (YttvCall("returned") /\ yttv'.last[1].channels > 0) =>
           yttv'.consecutiveEmptyDiscoveries = 0
      /\ YttvCall("clear") => yttv'.consecutiveEmptyDiscoveries = 0
      /\ yttv'.consecutiveEmptyDiscoveries # yttv.consecutiveEmptyDiscoveries =>
           \/ /\ yttv'.consecutiveEmptyDiscoveries = 0
              /\ \/ YttvCall("clear")
                 \/ YttvCall("returned") /\ yttv'.last[1].channels > 0
           \/ /\ yttv'.consecutiveEmptyDiscoveries = yttv.consecutiveEmptyDiscoveries + 1
              /\ yttv'.last[1].channels = 0
              /\ \E r \in Runs : Leaves(r, "discovering") ]_vars

\* Two runs wait for their recoveries at once: the second one found the
\* guide empty while the first one's recovery was under way.
C36_Witness ==
  /\ \A r \in Runs : yttv.pc[r] = "recovering"
  /\ yttv.consecutiveEmptyDiscoveries = EMPTY_DISCOVERY_RECOVERY_THRESHOLD + 1

----------------------------------------------------------------------------
(* sling.ts: clickWithRetry. *)

CLICK_RETRY_TIMEOUT == 5000

MAX_CLICK_ATTEMPTS == 3

\* CONFIG.streaming.navigationTimeout, in milliseconds: a configured value.
NavigationTimeouts == {5000, 10000}

\* Click coordinates.
Targets == {1, 2}

NoTarget == 0

ClickTimeoutFull(attempt, navigationTimeout) == navigationTimeout

\* The timeout of an attempt: shorter on the non-final attempts.
ClickTimeout(attempt, navigationTimeout) ==
  IF attempt < MAX_CLICK_ATTEMPTS - 1 THEN CLICK_RETRY_TIMEOUT ELSE navigationTimeout

Succeeded == [success |-> TRUE, reason |-> 0 - 1]

\* The failure of clickSlingOnNowAndWaitForNavigation in the given attempt.
Failed(attempt) == [success |-> FALSE, reason |-> attempt]

\* "No click attempts made."
NoAttempt == [success |-> FALSE, reason |-> MAX_CLICK_ATTEMPTS]

\* clickWithRetry from the loop condition to its next await or return.
ClickLoop(c) ==
  IF ~(c.attempt < MAX_CLICK_ATTEMPTS)
    THEN [c EXCEPT !.pc = "done", !.result = c.lastResult]
  ELSE IF c.attempt > 0 /\ ~c.onGuide
    THEN [c EXCEPT !.pc = "done", !.result = Succeeded, !.left = TRUE]
  ELSE IF c.attempt > 0
    THEN [c EXCEPT !.pc = "reading", !.awaits = @ + 1]
  ELSE [c EXCEPT !.pc = "clicking", !.awaits = @ + 1,
                 !.clicks = Append(@, [timeout |-> ClickTimeout(c.attempt, c.navigationTimeout),
                                       target |-> c.target,
                                       onGuide |-> c.onGuide])]

\* clickWithRetry(page, initialTarget, ...) is called on the guide page.
ClickWithRetry ==
  /\ click.pc = "idle"
  /\ \E initialTarget \in Targets, navigationTimeout \in NavigationTimeouts :
       click' = ClickLoop([ pc                |-> "loop",
                            attempt           |-> 0,
                            target            |-> initialTarget,
                            lastResult        |-> NoAttempt,
                            navigationTimeout |-> navigationTimeout,
                            onGuide           |-> TRUE,
                            result            |-> NoAttempt,
                            left              |-> FALSE,  \* returned at the URL check
                            awaits            |-> 0,      \* awaits started so far
                            clicks            |-> <<>> ]) \* the clicks fired, in order
  /\ UNCHANGED <<Segmenter, yttv, sling, providers>>

\* readSlingChannelsAndLocate returns, or throws because the page navigated
\* away during the read; then the click is fired.
ClickReread ==
  /\ click.pc = "reading"
  /\ \E clickTarget \in Targets \cup {NoTarget}, thrown \in BOOLEAN :
       /\ thrown => ~click.onGuide
       /\ LET target == IF ~thrown /\ clickTarget # NoTarget THEN clickTarget ELSE click.target
          IN click' = [click EXCEPT
               !.pc = "clicking",
               !.target = target,
               !.awaits = @ + 1,
               !.clicks = Append(@, [timeout |-> ClickTimeout(click.attempt, click.navigationTimeout),
                                     target |-> target,
                                     onGuide |-> click.onGuide])]
  /\ UNCHANGED <<Segmenter, yttv, sling, providers>>

\* clickSlingOnNowAndWaitForNavigation returns: the navigation completed, or
\* the wait timed out.
ClickReturns ==
  /\ click.pc = "clicking"
  /\ \E success \in BOOLEAN :
       click' =
         IF success
           THEN [click EXCEPT !.pc = "done", !.lastResult = Succeeded, !.result = Succeeded,
                              !.onGuide = FALSE]
           ELSE ClickLoop([click EXCEPT !.lastResult = Failed(click.attempt),
                                        !.attempt = @ + 1])
  /\ UNCHANGED <<Segmenter, yttv, sling, providers>>

\* The page commits a navigation that an earlier click triggered.
PageNavigates ==
  /\ click.pc \in {"reading", "clicking"}
  /\ click.onGuide
  /\ click' = [click EXCEPT !.onGuide = FALSE]
  /\ UNCHANGED <<Segmenter, yttv, sling, providers>>

InitClick == Starts(InitialWorld)

NextClick ==
  \/ ClickWithRetry
  \/ ClickReread
  \/ ClickReturns
  \/ PageNavigates

\* One call of clickWithRetry.
SpecClick == InitClick /\ [][NextClick]_vars

\* C37: clickWithRetry performs at most 3 click attempts and terminates (it
\* starts at most 5 awaits, each of them bounded by a timeout): it returns
\* success at the first successful attempt, returns success without clicking
\* again when a retry finds that the page has left the guide URL, uses the
\* 5000 ms timeout on the first two attempts and the full navigation timeout
\* on the third, and otherwise returns the failure of the last attempt.
C37_ClickWithRetry ==
  click.pc # "idle" =>
    /\ Len(click.clicks) <= 3
    /\ click.awaits <= 5
    /\ \A p \in DOMAIN click.clicks :
         click.clicks[p].timeout = IF p <= 2 THEN 5000 ELSE click.navigationTimeout
    /\ click.pc = "done" =>
         \/ /\ click.result = Succeeded
            /\ ~click.left
            /\ click.lastResult = Succeeded
            /\ Len(click.clicks) = click.attempt + 1
         \/ /\ click.result = Succeeded
            /\ click.left
            /\ ~click.onGuide
            /\ click.lastResult = Failed(click.attempt - 1)
            /\ Len(click.clicks) = click.attempt
         \/ /\ click.result = Failed(2)
            /\ Len(click.clicks) = 3
            /\ click.attempt = 3

\* A call that failed three times, the third click with the full timeout.
C37_Witness ==
  /\ click.pc = "done"
  /\ ~click.result.success
  /\ Len(click.clicks) = MAX_CLICK_ATTEMPTS
  /\ click.navigationTimeout # CLICK_RETRY_TIMEOUT
  /\ click.clicks[3].target # click.clicks[1].target

----------------------------------------------------------------------------
(* sling.ts: the binary search of slingGridStrategy. *)

maxIterations == 12

MaxRows == 6

\* What readSlingChannelsAndLocate can report for the rows rendered at a
\* scroll position: no channel at all; the target with its on-now cell; or
\* channels without the target, which sorts before the first of them, after
\* the last of them, or between the two.
Reads == {"none", "located", "before", "after", "between"}

\* Math.floor((low + high) / 2)
Mid(low, high) == (low + high) \div 2

\* The loop from its condition on, after the iteration counter advanced:
\* another scroll is due, or the search is over.
SearchLoop(s) ==
  IF s.iteration < maxIterations /\ s.low <= s.high /\ s.open
    THEN s
    ELSE [s EXCEPT !.pc = "done",
                   !.result = IF s.found THEN "click" ELSE "could not find channel"]

SearchBodyRetrying(s, read) ==
  LET mid == Mid(s.low, s.high)
      s1 == [s EXCEPT !.mid = mid, !.scrolls = @ + 1,
                      !.located = @ \/ read = "located"]
  IN CASE read = "none" -> s1
       [] read = "located" -> [s1 EXCEPT !.found = TRUE, !.open = FALSE]
       [] read = "before" -> [s1 EXCEPT !.high = mid - 1, !.iteration = @ + 1]
       [] read = "after" -> [s1 EXCEPT !.low = mid + 1, !.iteration = @ + 1]
       [] OTHER -> [s1 EXCEPT !.open = FALSE]

\* One iteration of the loop: scroll to the midpoint, read, adjust.
SearchBody(s, read) ==
  LET mid == Mid(s.low, s.high)
      s1 == [s EXCEPT !.mid = mid, !.scrolls = @ + 1, !.iteration = @ + 1,
                      !.located = @ \/ read = "located"]
  IN CASE read = "none" -> s1
       [] read = "located" -> [s1 EXCEPT !.found = TRUE, !.open = FALSE]
       [] read = "before" -> [s1 EXCEPT !.high = mid - 1]
       [] read = "after" -> [s1 EXCEPT !.low = mid + 1]
       [] OTHER -> [s1 EXCEPT !.open = FALSE]

\* The search state at the start of phase 4.
SearchFrom(totalRows, located) ==
  [ pc        |-> "searching",
    totalRows |-> totalRows,
    low       |-> 0,
    high      |-> totalRows - 1,
    iteration |-> 0,
    mid       |-> 0,
    found     |-> FALSE,
    open      |-> TRUE,     \* no break so far
    result    |-> "",
    scrolls   |-> 0,        \* scroll-and-read rounds of the binary search
    located   |-> located ] \* a read located the target's on-now cell

\* slingGridStrategy up to phase 4: the grid has totalRows rows; a cached row
\* is tried first, and a hit there goes straight to the click.
SlingGridStrategy ==
  /\ sling.pc = "idle"
  /\ \E totalRows \in 1 .. MaxRows, cached \in {"no entry", "miss", "hit"} :
       sling' = IF cached = "hit"
                  THEN [SearchFrom(totalRows, TRUE) EXCEPT !.pc = "done", !.result = "click"]
                  ELSE SearchFrom(totalRows, FALSE)
  /\ UNCHANGED <<Segmenter, yttv, click, providers>>

\* One scroll-and-read iteration of the binary search.
SlingIteration ==
  /\ sling.pc = "searching"
  /\ \E read \in Reads : sling' = SearchLoop(SearchBody(sling, read))
  /\ UNCHANGED <<Segmenter, yttv, click, providers>>

InitSling == Starts(InitialWorld)

NextSling ==
  \/ SlingGridStrategy
  \/ SlingIteration

\* One run of the Sling guide strategy up to its click.
SpecSling == InitSling /\ [][NextSling]_vars

\* C38: the Sling guide binary search ends after at most 12 scroll-and-read
\* iterations whatever the guide shows (reads that return no channels
\* included), every scroll goes to a row mid with 0 <= mid <= totalRows - 1,
\* and when no read located the target's on-now cell the strategy reports
\* that it could not find the channel, without clicking.
C38_SlingBinarySearch ==
  sling.pc # "idle" =>
    /\ sling.scrolls <= 12
    /\ sling.scrolls > 0 => (0 <= sling.mid /\ sling.mid <= sling.totalRows - 1)
    /\ (sling.pc = "done" /\ ~sling.located) => sling.result = "could not find channel"
    /\ sling.pc = "searching" => sling.scrolls < 12

\* A search that used all its iterations without ever locating the target.
C38_Witness ==
  /\ sling.pc = "done"
  /\ sling.scrolls = maxIterations
  /\ ~sling.located
  /\ sling.low > 0
  /\ sling.result = "could not find channel"

----------------------------------------------------------------------------
(* providers.ts: provider groups and provider selections.  A key is the      *)
(* sequence of its characters.                                               *)

PREDEFINED_SUFFIX == <<":", "p", "r", "e", "d", "e", "f", "i", "n", "e", "d">>

\* The characters of the keys, in the order of their character codes.
Alphabet == <<"-", ":", "a", "b", "c", "d", "e", "f", "i", "n", "o", "p", "r", "s", "t", "u", "z">>

CharCode(ch) == CHOOSE p \in DOMAIN Alphabet : Alphabet[p] = ch

\* a < b as JavaScript compares strings (Array.prototype.sort without a
\* comparator).
RECURSIVE Before(_, _)
Before(a, b) ==
  IF b = <<>> THEN FALSE
  ELSE IF a = <<>> THEN TRUE
  ELSE IF Head(a) # Head(b) THEN CharCode(Head(a)) < CharCode(Head(b))
  ELSE Before(Tail(a), Tail(b))

\* The keys of S in ascending order.
RECURSIVE Sorted(_)
Sorted(S) ==
  IF S = {} THEN <<>>
  ELSE LET first == CHOOSE k \in S : \A other \in S \ {k} : Before(k, other)
       IN <<first>> \o Sorted(S \ {first})

\* String.prototype.indexOf for one character, counted from 0; -1 if absent.
IndexOf(key, ch) ==
  IF \E p \in DOMAIN key : key[p] = ch
    THEN SetMin({p \in DOMAIN key : key[p] = ch}) - 1
    ELSE 0 - 1

\* String.prototype.endsWith
EndsWith(key, suffix) ==
  /\ Len(key) >= Len(suffix)
  /\ SubSeq(key, Len(key) - Len(suffix) + 1, Len(key)) = suffix

\* key.slice(0, -suffix.length)
WithoutSuffix(key, suffix) == SubSeq(key, 1, Len(key) - Len(suffix))

\* Channel keys, after the example of the grouping convention: "foo",
\* "foo-bar" and a key with two hyphens.
Foo == <<"f", "o", "o">>
FooBar == <<"f", "o", "o", "-", "b", "a", "r">>
FooBarBaz == <<"f", "o", "o", "-", "b", "a", "r", "-", "b", "a", "z">>

ChannelKeys == {Foo, FooBar, FooBarBaz}

\* The keys of PREDEFINED_CHANNELS.
PredefinedKeys == {Foo, FooBar}

\* A property every plain object inherits from Object.prototype: indexing an
\* object with it yields a value although the object has no such key.
Constructor == <<"c", "o", "n", "s", "t", "r", "u", "c", "t", "o", "r">>

ObjectPrototype == {Constructor}

EmptyString == <<>>

\* obj[key] is truthy, for an object whose own keys are ownKeys (all values
\* of a channel map are objects).
Truthy(ownKeys, key) == key \in ownKeys \cup ObjectPrototype

\* The merged channel maps: per key the predefined object itself, or a user's
\* channel.
ChannelMaps ==
  UNION { { channels \in [keys -> {"predefined", "user"}] :
              \A k \in keys : channels[k] = "predefined" => k \in PredefinedKeys } :
          keys \in SUBSET ChannelKeys }

\* isUserOverride
IsUserOverride(key, channels) ==
  key \in PredefinedKeys /\ channels[key] # "predefined"

\* buildProviderGroups, first pass: the canonical key of a variant key is its
\* prefix before the first hyphen, if that prefix is a channel.
PotentialCanonical(key) == SubSeq(key, 1, IndexOf(key, "-"))

IsVariantKey(key, allKeys) ==
  IndexOf(key, "-") # 0 - 1 /\ PotentialCanonical(key) \in allKeys

ProviderGroupOf(canonicalKey, variantKeys, channels) ==
  [ canonicalKey |-> canonicalKey,
    variants |-> (IF IsUserOverride(canonicalKey, channels)
                    THEN <<canonicalKey, canonicalKey \o PREDEFINED_SUFFIX>>
                    ELSE <<canonicalKey>>) \o Sorted(variantKeys) ]

\* buildProviderGroups: the providerGroups map it leaves.
BuildProviderGroups(channels) ==
  LET allKeys == DOMAIN channels
      variantKeys == {k \in allKeys : IsVariantKey(k, allKeys)}
      canonicals == {PotentialCanonical(k) : k \in variantKeys}
      variantsOf(c) == {k \in variantKeys : PotentialCanonical(k) = c}
      overrides == {k \in allKeys \ (variantKeys \cup canonicals) : IsUserOverride(k, channels)}
  IN [k \in variantKeys \cup canonicals \cup overrides |->
        IF k \in variantKeys
          THEN ProviderGroupOf(PotentialCanonical(k), variantsOf(PotentialCanonical(k)), channels)
          ELSE ProviderGroupOf(k, variantsOf(k), channels)]

\* getProviderGroup: defined on the keys that are in a group.
GetProviderGroup(p, key) == p.providerGroups[key]

\* isProviderVariant
IsProviderVariant(p, key) ==
  Has(p.providerGroups, key) /\ p.providerGroups[key].canonicalKey # key

\* getCanonicalKey
GetCanonicalKey(p, key) ==
  LET baseKey == IF EndsWith(key, PREDEFINED_SUFFIX)
                   THEN WithoutSuffix(key, PREDEFINED_SUFFIX) ELSE key
  IN IF Has(p.providerGroups, baseKey) THEN p.providerGroups[baseKey].canonicalKey ELSE baseKey

\* What the properties remember of a call.
ProviderCall(op, arg, provider, stored, before, result) ==
  << [op |-> op, arg |-> arg, provider |-> provider, stored |-> stored,
      before |-> before, result |-> result] >>

\* buildProviderGroups(channels)
BuildProviderGroupsCall ==
  /\ \E channels \in ChannelMaps :
       providers' = [providers EXCEPT
         !.channelsRef = channels,
         !.providerGroups = BuildProviderGroups(channels),
         !.last = ProviderCall("build", EmptyString, EmptyString, FALSE, EmptyString, EmptyString)]
  /\ UNCHANGED <<Segmenter, yttv, click, sling>>

\* The canonical keys the calls are made for, and the provider keys they
\* select: channel keys, ":predefined" keys, the empty string and a key that
\* only Object.prototype has.
CanonicalKeys == {Foo, FooBar}

ProviderKeys ==
  ChannelKeys \cup {Foo \o PREDEFINED_SUFFIX, FooBarBaz \o PREDEFINED_SUFFIX,
                    EmptyString, Constructor}

\* setProviderSelections(selections), as loaded from channels.json
SetProviderSelections ==
  /\ \E selections \in {EmptyMap} \cup
                       {(c :> p) : c \in CanonicalKeys, p \in ProviderKeys} :
       providers' = [providers EXCEPT
         !.providerSelections = selections,
         !.last = ProviderCall("load", EmptyString, EmptyString, FALSE, EmptyString, EmptyString)]
  /\ UNCHANGED <<Segmenter, yttv, click, sling>>

\* delete providerSelections[canonicalKey]
Deleted(selections, canonicalKey) ==
  [k \in (DOMAIN selections) \ {canonicalKey} |-> selections[k]]

\* setProviderSelection(canonicalKey, providerKey)
SetProviderSelection ==
  /\ \E canonicalKey \in CanonicalKeys, providerKey \in ProviderKeys :
       providers' = [providers EXCEPT
         !.providerSelections =
            IF providerKey = canonicalKey
              THEN Deleted(@, canonicalKey)
              ELSE Put(@, canonicalKey, providerKey),
         !.last = ProviderCall("select", canonicalKey, providerKey, FALSE, EmptyString, EmptyString)]
  /\ UNCHANGED <<Segmenter, yttv, click, sling>>

\* resolveProviderKey: the key returned and the selections afterwards.
ResolveProviderKeyOp(p, canonicalKey) ==
  LET stored == Has(p.providerSelections, canonicalKey)
      selection == IF stored THEN p.providerSelections[canonicalKey] ELSE EmptyString
      cleared == [result |-> canonicalKey,
                  selections |-> Deleted(p.providerSelections, canonicalKey)]
      kept == [result |-> selection, selections |-> p.providerSelections]
  IN IF ~stored \/ selection = EmptyString
       THEN [result |-> canonicalKey, selections |-> p.providerSelections]
     ELSE IF EndsWith(selection, PREDEFINED_SUFFIX)
       THEN IF Truthy(PredefinedKeys, WithoutSuffix(selection, PREDEFINED_SUFFIX))
              THEN kept ELSE cleared
     ELSE IF Truthy(DOMAIN p.channelsRef, selection) THEN kept
     ELSE cleared

\* resolveProviderKey(canonicalKey)
ResolveProviderKey ==
  /\ \E canonicalKey \in CanonicalKeys :
       LET stored == Has(providers.providerSelections, canonicalKey)
           out == ResolveProviderKeyOp(providers, canonicalKey)
       IN providers' = [providers EXCEPT
            !.providerSelections = out.selections,
            !.last = ProviderCall("resolve", canonicalKey, EmptyString, stored,
                                  IF stored THEN providers.providerSelections[canonicalKey]
                                            ELSE EmptyString,
                                  out.result)]
  /\ UNCHANGED <<Segmenter, yttv, click, sling>>

InitProviders == Starts(InitialWorld)

NextProviders ==
  \/ BuildProviderGroupsCall
  \/ SetProviderSelections
  \/ SetProviderSelection
  \/ ResolveProviderKey

\* The provider module under any sequence of its calls.
SpecProviders == InitProviders /\ [][NextProviders]_vars

RangeOf(seq) == {seq[p] : p \in DOMAIN seq}

\* C39: after buildProviderGroups(channels), for every pair of channel keys
\* c and k of the map where k starts with c + "-", k is a variant of c:
\* isProviderVariant(k) is true, getCanonicalKey(k) = c and
\* getProviderGroup(c) lists k among its variants; and a key with no such c
\* is never reported as a variant.
C39_ProviderGrouping ==
  LET keys == DOMAIN providers.channelsRef IN
  /\ \A c \in keys, k \in keys :
       StartsWith(k, c \o <<"-">>) =>
         /\ IsProviderVariant(providers, k)
         /\ GetCanonicalKey(providers, k) = c
         /\ Has(providers.providerGroups, c)
         /\ k \in RangeOf(GetProviderGroup(providers, c).variants)
  /\ \A k \in keys :
       (~\E c \in keys : StartsWith(k, c \o <<"-">>)) => ~IsProviderVariant(providers, k)

\* The selection exists: a key of the last built channel map, or
\* "<base>:predefined" with base among the predefined channels.
SelectionExists(key) ==
  \/ key \in DOMAIN providers.channelsRef
  \/ EndsWith(key, PREDEFINED_SUFFIX) /\ WithoutSuffix(key, PREDEFINED_SUFFIX) \in PredefinedKeys

\* C40: whatever calls were made before, resolveProviderKey(c) returns c or
\* the stored selection, and the latter only if it currently exists; a
\* stored selection that no longer exists is deleted by the call, so that
\* getProviderSelection(c) is undefined afterwards; and
\* setProviderSelection(c, c) stores nothing.
C40_ResolvedSelectionExists ==
  providers.last # <<>> =>
    LET call == providers.last[1] IN
    /\ call.op = "resolve" =>
         /\ \/ call.result = call.arg
            \/ call.stored /\ call.result = call.before /\ SelectionExists(call.result)
         /\ (call.stored /\ ~SelectionExists(call.before)) =>
              ~Has(providers.providerSelections, call.arg)
    /\ (call.op = "select" /\ call.provider = call.arg) =>
         ~Has(providers.providerSelections, call.arg)

====
